---- MODULE Spec2Model ----
(***************************************************************************)
(* Pixoo64 album-art integration: the update orchestrator of __init__.py   *)
(* (state-change handler, forced update, paused debounce timer and the     *)
(* decide-and-render sequence), with the parts of config.py, media.py,     *)
(* fallback_service.py, image.py and lyrics_provider.py it drives.          *)
(* Eight specifications share the state: Spec is the orchestrator with its *)
(* environment, ConfigSpec the resolution of the display and crop modes of *)
(* config.py, CacheSpec the image cache of ImageProcessor.get_image,       *)
(* FallbackSpec the artwork resolution of FallbackService.get_final_url,   *)
(* LyricsSpec the fetches and ticks of LyricsProvider, HelperSpec the      *)
(* colour conversions of helpers.py, SetupSpec async_setup_entry, and      *)
(* SelectSpec the orchestrator with the select entities of                 *)
(* input_select.py.                                                        *)
(***************************************************************************)
EXTENDS Integers, Sequences, FiniteSets, TLC

(***************************************************************************)
(* Bounds of the model.                                                    *)
(***************************************************************************)
\* state changes of the media player and requests for a forced update that
\* the environment makes in a run
MaxRequests == 3
\* fired off-processing tasks that may be in flight at the same time
MaxDelayed == 1
\* distinct URLs get_image is asked for (CacheSpec)
MaxUrls == 3
\* the largest capacity of the image cache that is tried (CacheSpec)
MaxCapacity == 2
\* the items of the longest answer of the lyrics API (LyricsSpec)
MaxLines == 3
\* the characters after the '#' of the longest colour string (HelperSpec)
MaxLen == 6

None == "None"

(***************************************************************************)
(* Strings.  A Python string is modelled by its text; the characters of    *)
(* the strings the model uses are spelled out so that str.lower() and the  *)
(* substring test ("kw" in m) are computed on characters.                  *)
(***************************************************************************)
Chars(s) ==
    CASE s = "Default" -> <<"D","e","f","a","u","l","t">>
      [] s = "Clean" -> <<"C","l","e","a","n">>
      [] s = "AI Generation (Flux)" -> <<"A","I"," ","G","e","n","e","r","a","t","i","o","n"," ","(","F","l","u","x",")">>
      [] s = "AI Generation (Turbo)" -> <<"A","I"," ","G","e","n","e","r","a","t","i","o","n"," ","(","T","u","r","b","o",")">>
      [] s = "Burned" -> <<"B","u","r","n","e","d">>
      [] s = "Burned | Clock" -> <<"B","u","r","n","e","d"," ","|"," ","C","l","o","c","k">>
      [] s = "Burned | Clock (Background)" -> <<"B","u","r","n","e","d"," ","|"," ","C","l","o","c","k"," ","(","B","a","c","k","g","r","o","u","n","d",")">>
      [] s = "Burned | Temperature" -> <<"B","u","r","n","e","d"," ","|"," ","T","e","m","p","e","r","a","t","u","r","e">>
      [] s = "Burned | Temperature (Background)" -> <<"B","u","r","n","e","d"," ","|"," ","T","e","m","p","e","r","a","t","u","r","e"," ","(","B","a","c","k","g","r","o","u","n","d",")">>
      [] s = "Burned | Clock & Temperature (Background)" -> <<"B","u","r","n","e","d"," ","|"," ","C","l","o","c","k"," ","&"," ","T","e","m","p","e","r","a","t","u","r","e"," ","(","B","a","c","k","g","r","o","u","n","d",")">>
      [] s = "Text" -> <<"T","e","x","t">>
      [] s = "Text (Background)" -> <<"T","e","x","t"," ","(","B","a","c","k","g","r","o","u","n","d",")">>
      [] s = "Clock" -> <<"C","l","o","c","k">>
      [] s = "Clock (Background)" -> <<"C","l","o","c","k"," ","(","B","a","c","k","g","r","o","u","n","d",")">>
      [] s = "Clock | Temperature" -> <<"C","l","o","c","k"," ","|"," ","T","e","m","p","e","r","a","t","u","r","e">>
      [] s = "Clock | Temperature (Background)" -> <<"C","l","o","c","k"," ","|"," ","T","e","m","p","e","r","a","t","u","r","e"," ","(","B","a","c","k","g","r","o","u","n","d",")">>
      [] s = "Clock | Temperature | Text" -> <<"C","l","o","c","k"," ","|"," ","T","e","m","p","e","r","a","t","u","r","e"," ","|"," ","T","e","x","t">>
      [] s = "Clock | Temperature | Text (Background)" -> <<"C","l","o","c","k"," ","|"," ","T","e","m","p","e","r","a","t","u","r","e"," ","|"," ","T","e","x","t"," ","(","B","a","c","k","g","r","o","u","n","d",")">>
      [] s = "Lyrics" -> <<"L","y","r","i","c","s">>
      [] s = "Lyrics (Background)" -> <<"L","y","r","i","c","s"," ","(","B","a","c","k","g","r","o","u","n","d",")">>
      [] s = "Temperature" -> <<"T","e","m","p","e","r","a","t","u","r","e">>
      [] s = "Temperature (Background)" -> <<"T","e","m","p","e","r","a","t","u","r","e"," ","(","B","a","c","k","g","r","o","u","n","d",")">>
      [] s = "Temperature | Text" -> <<"T","e","m","p","e","r","a","t","u","r","e"," ","|"," ","T","e","x","t">>
      [] s = "Temperature | Text (Background)" -> <<"T","e","m","p","e","r","a","t","u","r","e"," ","|"," ","T","e","x","t"," ","(","B","a","c","k","g","r","o","u","n","d",")">>
      [] s = "Special Mode" -> <<"S","p","e","c","i","a","l"," ","M","o","d","e">>
      [] s = "Special Mode | Text" -> <<"S","p","e","c","i","a","l"," ","M","o","d","e"," ","|"," ","T","e","x","t">>
      [] s = "Spotify Slider (beta)" -> <<"S","p","o","t","i","f","y"," ","S","l","i","d","e","r"," ","(","b","e","t","a",")">>
      [] s = "Spotify Slider Special Mode with Text (beta)" -> <<"S","p","o","t","i","f","y"," ","S","l","i","d","e","r"," ","S","p","e","c","i","a","l"," ","M","o","d","e"," ","w","i","t","h"," ","T","e","x","t"," ","(","b","e","t","a",")">>
      [] s = "Album Art Only" -> <<"A","l","b","u","m"," ","A","r","t"," ","O","n","l","y">>
      [] s = "Lyrics Only" -> <<"L","y","r","i","c","s"," ","O","n","l","y">>
      [] s = "Polka" -> <<"P","o","l","k","a">>
      [] s = "Clock | Polka" -> <<"C","l","o","c","k"," ","|"," ","P","o","l","k","a">>
      [] s = "LYRICS ONLY" -> <<"L","Y","R","I","C","S"," ","O","N","L","Y">>
      [] s = "No Crop" -> <<"N","o"," ","C","r","o","p">>
      [] s = "Crop" -> <<"C","r","o","p">>
      [] s = "Extra Crop" -> <<"E","x","t","r","a"," ","C","r","o","p">>
      [] s = "EXTRA CROP" -> <<"E","X","T","R","A"," ","C","R","O","P">>
      [] s = "Wide" -> <<"W","i","d","e">>
      [] s = "no crop" -> <<"n","o"," ","c","r","o","p">>
      [] s = "crop" -> <<"c","r","o","p">>
      [] s = "extra crop" -> <<"e","x","t","r","a"," ","c","r","o","p">>
      [] s = "default" -> <<"d","e","f","a","u","l","t">>
      [] s = "clean" -> <<"c","l","e","a","n">>
      [] s = "album art only" -> <<"a","l","b","u","m"," ","a","r","t"," ","o","n","l","y">>
      [] s = "lyrics only" -> <<"l","y","r","i","c","s"," ","o","n","l","y">>
      [] s = "lyrics" -> <<"l","y","r","i","c","s">>
      [] s = "spotify slider" -> <<"s","p","o","t","i","f","y"," ","s","l","i","d","e","r">>
      [] s = "special mode" -> <<"s","p","e","c","i","a","l"," ","m","o","d","e">>
      [] s = "clock" -> <<"c","l","o","c","k">>
      [] s = "temperature" -> <<"t","e","m","p","e","r","a","t","u","r","e">>
      [] s = "text" -> <<"t","e","x","t">>
      [] s = "background" -> <<"b","a","c","k","g","r","o","u","n","d">>
      [] s = "ai generation" -> <<"a","i"," ","g","e","n","e","r","a","t","i","o","n">>
      [] s = "burned" -> <<"b","u","r","n","e","d">>
      [] s = "flux" -> <<"f","l","u","x">>
      [] s = "turbo" -> <<"t","u","r","b","o">>

\* str.lower() on one character
LowerChar(c) ==
    CASE c = "A" -> "a"
      [] c = "B" -> "b"
      [] c = "C" -> "c"
      [] c = "D" -> "d"
      [] c = "E" -> "e"
      [] c = "F" -> "f"
      [] c = "G" -> "g"
      [] c = "H" -> "h"
      [] c = "I" -> "i"
      [] c = "J" -> "j"
      [] c = "K" -> "k"
      [] c = "L" -> "l"
      [] c = "M" -> "m"
      [] c = "N" -> "n"
      [] c = "O" -> "o"
      [] c = "P" -> "p"
      [] c = "Q" -> "q"
      [] c = "R" -> "r"
      [] c = "S" -> "s"
      [] c = "T" -> "t"
      [] c = "U" -> "u"
      [] c = "V" -> "v"
      [] c = "W" -> "w"
      [] c = "X" -> "x"
      [] c = "Y" -> "y"
      [] c = "Z" -> "z"
      [] OTHER -> c

\* str.lower(): the lowercased characters of s
Lower(s) == [i \in 1..Len(Chars(s)) |-> LowerChar(Chars(s)[i])]

\* Python's `kw in m` on character sequences
InSeq(kw, m) ==
    \E i \in 0..(Len(m) - Len(kw)) : \A j \in 1..Len(kw) : m[i + j] = kw[j]

\* `"kw" in mode_string.lower()`
KeywordIn(kw, mode_string) == InSeq(Chars(kw), Lower(mode_string))


\* `mode_string.lower() == "name"`
LowerEq(mode_string, name) == Lower(mode_string) = Chars(name)

(***************************************************************************)
(* config.py: the settings object.  `original` holds the persisted         *)
(* settings ("original_*" attributes); the other fields are the            *)
(* operational values the display mode resolves.                           *)
(***************************************************************************)
PlayerStates == {"playing", "paused", "off", "idle", "standby"}
AI_FALLBACK_MODEL_OPTIONS == {"turbo", "flux"}
DISPLAY_MODE_OPTIONS ==
    {"Default", "Clean", "AI Generation (Flux)", "AI Generation (Turbo)",
     "Burned", "Burned | Clock", "Burned | Clock (Background)",
     "Burned | Temperature", "Burned | Temperature (Background)",
     "Burned | Clock & Temperature (Background)", "Text", "Text (Background)",
     "Clock", "Clock (Background)", "Clock | Temperature",
     "Clock | Temperature (Background)", "Clock | Temperature | Text",
     "Clock | Temperature | Text (Background)", "Lyrics", "Lyrics (Background)",
     "Temperature", "Temperature (Background)", "Temperature | Text",
     "Temperature | Text (Background)", "Special Mode", "Special Mode | Text"}

SPOTIFY_SLIDER_OPTIONS ==
    {"Spotify Slider (beta)", "Spotify Slider Special Mode with Text (beta)"}
CROP_MODE_OPTIONS == {"Default", "No Crop", "Crop", "Extra Crop"}

\* the mode strings that are resolved: the selectable ones, the two named
\* overrides, and strings with other case or unknown words
ModeStrings ==
    DISPLAY_MODE_OPTIONS \cup SPOTIFY_SLIDER_OPTIONS
    \cup {"Album Art Only", "Lyrics Only", "LYRICS ONLY", "Polka",
          "Clock | Polka"}
CropStrings == CROP_MODE_OPTIONS \cup {"Wide"}

\* the keywords config.py:212-224 looks for
KEYWORDS ==
    {"lyrics", "spotify slider", "special mode", "clock", "temperature",
     "text", "background", "ai generation", "burned", "flux", "turbo"}

\* s.lower() and the keywords found in it, computed once for each string
Lowered == [s \in ModeStrings \cup CropStrings |-> Lower(s)]
Found ==
    [s \in ModeStrings |-> {kw \in KEYWORDS : InSeq(Chars(kw), Lowered[s])}]

\* const.py:58-59
CLOCK_ALIGN_OPTIONS == {"Left", "Right"}
LYRICS_FONT_OPTIONS == {2, 4, 32, 52, 58, 62, 48, 80, 158, 186, 190, 590}

\* a persisted value that is an integer, or a string given by its characters
IntValue(i) == [type |-> "int", int |-> i, str |-> <<>>]
StrValue(chars) == [type |-> "str", int |-> 0, str |-> chars]

\* the decimal digits
DigitValue ==
    [d \in {"0", "1", "2", "3", "4", "5", "6", "7", "8", "9"} |->
        CASE d = "0" -> 0 [] d = "1" -> 1 [] d = "2" -> 2 [] d = "3" -> 3
          [] d = "4" -> 4 [] d = "5" -> 5 [] d = "6" -> 6 [] d = "7" -> 7
          [] d = "8" -> 8 [] d = "9" -> 9]

\* int(v) of Python for an integer or a string of decimal digits: the number
\* in a sequence, or the empty sequence for the ValueError a string that is
\* not a number raises
RECURSIVE DecimalOf(_)
DecimalOf(chars) ==
    IF chars = <<>> THEN 0
    ELSE 10 * DecimalOf(SubSeq(chars, 1, Len(chars) - 1))
            + DigitValue[chars[Len(chars)]]
int(v) ==
    IF v.type = "int" THEN <<v.int>>
    ELSE IF v.str # <<>> /\ \A i \in 1..Len(v.str) : v.str[i] \in DOMAIN DigitValue
    THEN <<DecimalOf(v.str)>>
    ELSE <<>>

\* config.py:270-284: _validate_config on the operational values (the two
\* required fields are present)
validate_config(c) ==
    [c EXCEPT
        !.ai_fallback_model =
            IF @ \in AI_FALLBACK_MODEL_OPTIONS THEN @ ELSE "turbo",
        !.pixoo_clock_align =
            IF @ \in CLOCK_ALIGN_OPTIONS THEN @ ELSE "Right",
        !.pixoo_lyrics_font =
            IF int(@) # <<>> /\ int(@)[1] \in LYRICS_FONT_OPTIONS
            THEN IntValue(int(@)[1]) ELSE IntValue(190)]

\* the persisted options a configuration is built from, all at their defaults
\* (config.py:49-55, 62-79, 101, 103, 120-128) but for the display mode
DefaultOptions(mode) ==
    [pixoo_full_control |-> TRUE,
     pixoo_special_mode |-> FALSE,
     pixoo_info_fallback |-> FALSE,
     pixoo_show_clock |-> FALSE,
     pixoo_temperature_enabled |-> FALSE,
     pixoo_tv_icon_enabled |-> TRUE,
     pixoo_spotify_slide |-> FALSE,
     pixoo_show_lyrics |-> FALSE,
     pixoo_show_text_enabled |-> FALSE,
     pixoo_text_background_enabled |-> TRUE,
     force_ai |-> FALSE,
     ai_fallback_model |-> "turbo",
     pixoo_crop_borders_enabled |-> FALSE,
     pixoo_crop_borders_extra |-> FALSE,
     pixoo_images_cache_size |-> 25,
     pixoo_clock_align |-> "Right",
     pixoo_lyrics_font |-> IntValue(190),
     pixoo_lyrics_sync |-> -1,
     spotify_client_id |-> None,
     spotify_client_secret |-> None,
     tidal_client_id |-> None,
     tidal_client_secret |-> None,
     lastfm_api_key |-> None,
     discogs_api_token |-> None,
     musicbrainz_enabled |-> TRUE,
     display_mode_setting |-> mode,
     crop_mode_setting |-> "Default"]

\* a faulty apply_crop_mode_settings, which C16 must tell from the real one:
\* "Crop" also sets the extra crop
apply_crop_mode_settings_crop_extra(c, crop_mode_string) ==
    LET mode == Lowered[crop_mode_string]
        o == c.original
    IN  IF mode = Chars("no crop")
        THEN [c EXCEPT !.pixoo_crop_borders_enabled = FALSE,
                       !.pixoo_crop_borders_extra = FALSE]
        ELSE IF mode = Chars("crop") \/ mode = Chars("extra crop")
        THEN [c EXCEPT !.pixoo_crop_borders_enabled = TRUE,
                       !.pixoo_crop_borders_extra = TRUE]
        ELSE [c EXCEPT
                !.pixoo_crop_borders_enabled = o.pixoo_crop_borders_enabled,
                !.pixoo_crop_borders_extra = o.pixoo_crop_borders_extra]

\* Config._apply_crop_mode_settings(crop_mode_string)
apply_crop_mode_settings(c, crop_mode_string) ==
    LET mode == Lowered[crop_mode_string]
        o == c.original
    IN  IF mode = Chars("no crop")
        THEN [c EXCEPT !.pixoo_crop_borders_enabled = FALSE,
                       !.pixoo_crop_borders_extra = FALSE]
        ELSE IF mode = Chars("crop")
        THEN [c EXCEPT !.pixoo_crop_borders_enabled = TRUE,
                       !.pixoo_crop_borders_extra = FALSE]
        ELSE IF mode = Chars("extra crop")
        THEN [c EXCEPT !.pixoo_crop_borders_enabled = TRUE,
                       !.pixoo_crop_borders_extra = TRUE]
        ELSE [c EXCEPT
                !.pixoo_crop_borders_enabled = o.pixoo_crop_borders_enabled,
                !.pixoo_crop_borders_extra = o.pixoo_crop_borders_extra]

\* a faulty reset_to_originals, which C13 must tell from the real one: the
\* lyrics flag is not reverted
reset_to_originals_but_lyrics(c) ==
    LET o == c.original
    IN  [c EXCEPT !.pixoo_spotify_slide = o.pixoo_spotify_slide,
                  !.pixoo_special_mode = o.pixoo_special_mode,
                  !.pixoo_show_clock = o.pixoo_show_clock,
                  !.pixoo_temperature_enabled = o.pixoo_temperature_enabled,
                  !.pixoo_show_text_enabled = o.pixoo_show_text_enabled,
                  !.pixoo_text_background_enabled =
                      o.pixoo_text_background_enabled,
                  !.force_ai = o.force_ai,
                  !.ai_fallback_model = o.ai_fallback_model,
                  !.pixoo_burned = o.pixoo_burned]

\* config.py:187-196: "Default" reverts every flag to its saved original
reset_to_originals(c) ==
    LET o == c.original
    IN  [c EXCEPT !.pixoo_show_lyrics = o.pixoo_show_lyrics,
                  !.pixoo_spotify_slide = o.pixoo_spotify_slide,
                  !.pixoo_special_mode = o.pixoo_special_mode,
                  !.pixoo_show_clock = o.pixoo_show_clock,
                  !.pixoo_temperature_enabled = o.pixoo_temperature_enabled,
                  !.pixoo_show_text_enabled = o.pixoo_show_text_enabled,
                  !.pixoo_text_background_enabled =
                      o.pixoo_text_background_enabled,
                  !.force_ai = o.force_ai,
                  !.ai_fallback_model = o.ai_fallback_model,
                  !.pixoo_burned = o.pixoo_burned]

\* a faulty baseline_ai_model, which C12 must tell from the real one: the
\* model of the mode applied before is kept
baseline_ai_model_current(c) == c.ai_fallback_model

\* config.py:208: the AI model a mode other than "Default" starts from
baseline_ai_model(c) == c.original.ai_fallback_model

\* a faulty flags_from_keywords, which C15 must tell from the real one: the
\* keyword "text" is not looked for
flags_from_keywords_without_text(c, found) ==
    LET has(kw) == kw \in found
    IN  [c EXCEPT !.pixoo_show_lyrics = has("lyrics"),
                  !.pixoo_spotify_slide = has("spotify slider"),
                  !.pixoo_special_mode = has("special mode"),
                  !.pixoo_show_clock = has("clock"),
                  !.pixoo_temperature_enabled = has("temperature"),
                  !.pixoo_show_text_enabled = FALSE,
                  !.pixoo_text_background_enabled = has("background"),
                  !.force_ai = has("ai generation"),
                  !.ai_fallback_model =
                      IF has("ai generation") /\ has("flux") THEN "flux"
                      ELSE IF has("ai generation") /\ has("turbo") THEN "turbo"
                      ELSE baseline_ai_model(c),
                  !.pixoo_burned = has("burned")]

\* config.py:200-224: the clean slate, then the keywords found in m
flags_from_keywords(c, found) ==
    LET has(kw) == kw \in found
    IN  [c EXCEPT !.pixoo_show_lyrics = has("lyrics"),
                  !.pixoo_spotify_slide = has("spotify slider"),
                  !.pixoo_special_mode = has("special mode"),
                  !.pixoo_show_clock = has("clock"),
                  !.pixoo_temperature_enabled = has("temperature"),
                  !.pixoo_show_text_enabled = has("text"),
                  !.pixoo_text_background_enabled = has("background"),
                  !.force_ai = has("ai generation"),
                  !.ai_fallback_model =
                      IF has("ai generation") /\ has("flux") THEN "flux"
                      ELSE IF has("ai generation") /\ has("turbo") THEN "turbo"
                      ELSE baseline_ai_model(c),
                  !.pixoo_burned = has("burned")]

\* config.py:228-239: the modes that override the keywords
full_override(c, m) ==
    LET allOff ==
            [c EXCEPT !.pixoo_show_lyrics = FALSE,
                      !.pixoo_show_clock = FALSE,
                      !.pixoo_temperature_enabled = FALSE,
                      !.pixoo_show_text_enabled = FALSE,
                      !.pixoo_text_background_enabled = FALSE,
                      !.pixoo_special_mode = FALSE,
                      !.pixoo_spotify_slide = FALSE,
                      !.pixoo_burned = FALSE,
                      !.force_ai = FALSE]
    IN  IF m = Chars("clean") THEN c
        ELSE IF m = Chars("album art only") THEN allOff
        ELSE IF m = Chars("lyrics only")
        THEN [allOff EXCEPT !.pixoo_show_lyrics = TRUE]
        ELSE c

\* a faulty text_background_post, which C14 must tell from the real one: the
\* background flag is left as resolved
text_background_kept(c, m) == c

\* config.py:241-243: no background without an item-list text
text_background_post(c, m) ==
    IF ~(\/ c.pixoo_show_clock
         \/ c.pixoo_temperature_enabled
         \/ (c.pixoo_show_text_enabled
             /\ m \notin {Chars("lyrics only"), Chars("album art only")}))
    THEN [c EXCEPT !.pixoo_text_background_enabled = FALSE]
    ELSE c

\* config.py:246-248: the dependent combined flag
combined_flag(c) ==
    [c EXCEPT !.special_mode_spotify_slider =
                  /\ c.pixoo_spotify_slide
                  /\ c.pixoo_special_mode
                  /\ c.pixoo_show_text_enabled]

\* Config._apply_display_mode_settings(mode_string)
apply_display_mode_settings(c, mode_string) ==
    LET m == Lowered[mode_string]
        resolved ==
            IF m = Chars("default") THEN reset_to_originals(c)
            ELSE full_override(flags_from_keywords(c, Found[mode_string]), m)
    IN  combined_flag(text_background_post(resolved, m))

\* Config.__init__: originals from the options, operational values from the
\* originals, _validate_config on the operational values, then the initial
\* display mode and the initial crop mode are applied
Config(options) ==
    LET original ==
            [pixoo_full_control |-> options.pixoo_full_control,
             pixoo_special_mode |-> options.pixoo_special_mode,
             pixoo_info_fallback |-> options.pixoo_info_fallback,
             pixoo_show_clock |-> options.pixoo_show_clock,
             pixoo_temperature_enabled |-> options.pixoo_temperature_enabled,
             pixoo_tv_icon_enabled |-> options.pixoo_tv_icon_enabled,
             pixoo_spotify_slide |-> options.pixoo_spotify_slide,
             pixoo_show_lyrics |-> options.pixoo_show_lyrics,
             pixoo_show_text_enabled |-> options.pixoo_show_text_enabled,
             pixoo_text_background_enabled |-> options.pixoo_text_background_enabled,
             force_ai |-> options.force_ai,
             ai_fallback_model |-> options.ai_fallback_model,
             pixoo_burned |-> FALSE,
             pixoo_crop_borders_enabled |-> options.pixoo_crop_borders_enabled,
             pixoo_crop_borders_extra |-> options.pixoo_crop_borders_extra]
        c0 ==
            [original |-> original,
             pixoo_full_control |-> original.pixoo_full_control,
             pixoo_special_mode |-> original.pixoo_special_mode,
             pixoo_info_fallback |-> original.pixoo_info_fallback,
             pixoo_show_clock |-> original.pixoo_show_clock,
             pixoo_temperature_enabled |-> original.pixoo_temperature_enabled,
             pixoo_tv_icon_enabled |-> original.pixoo_tv_icon_enabled,
             pixoo_spotify_slide |-> original.pixoo_spotify_slide,
             pixoo_show_lyrics |-> original.pixoo_show_lyrics,
             pixoo_show_text_enabled |-> original.pixoo_show_text_enabled,
             pixoo_text_background_enabled |-> original.pixoo_text_background_enabled,
             force_ai |-> original.force_ai,
             ai_fallback_model |-> original.ai_fallback_model,
             pixoo_burned |-> FALSE,
             special_mode_spotify_slider |-> FALSE,
             pixoo_crop_borders_enabled |-> original.pixoo_crop_borders_enabled,
             pixoo_crop_borders_extra |-> original.pixoo_crop_borders_extra,
             pixoo_images_cache_size |-> options.pixoo_images_cache_size,
             pixoo_clock_align |-> options.pixoo_clock_align,
             pixoo_lyrics_font |-> options.pixoo_lyrics_font,
             pixoo_lyrics_sync |-> options.pixoo_lyrics_sync,
             spotify_client_id |-> options.spotify_client_id,
             spotify_client_secret |-> options.spotify_client_secret,
             tidal_client_id |-> options.tidal_client_id,
             tidal_client_secret |-> options.tidal_client_secret,
             lastfm_api_key |-> options.lastfm_api_key,
             discogs_api_token |-> options.discogs_api_token,
             musicbrainz_enabled |-> options.musicbrainz_enabled,
             display_mode_setting |-> options.display_mode_setting,
             crop_mode_setting |-> options.crop_mode_setting]
        validated == validate_config(c0)
    IN  apply_crop_mode_settings(
            apply_display_mode_settings(validated,
                                        validated.display_mode_setting),
            validated.crop_mode_setting)

(***************************************************************************)
(* State.                                                                  *)
(***************************************************************************)
VARIABLES
    hass,                 \* the host's state of the media player entity
    config,               \* the Config object
    media_data,           \* the MediaData object shared by all updates
    image_cache,          \* ImageProcessor._image_cache, in insertion order
    entry_data,           \* last_media_player_state, off_state_delay_timer
    display_update_lock,  \* TRUE while the asyncio.Lock is held
    waiters,              \* coroutines waiting for the lock, first come first
    tasks,                \* coroutines in flight: 0 holds the lock,
                          \* 1..MaxDelayed are fired off-processing tasks
    requests,             \* what the environment has asked for so far
    call,                 \* a get_image call made on its own (CacheSpec)
    rendered,             \* history of those calls: what each key was last
                          \* rendered to since the cache was last cleared
    fallback_service,     \* FallbackService with its SpotifyService, and the
                          \* get_final_url call made on its own (FallbackSpec)
    lyrics_provider,      \* LyricsProvider, and the call of one of its
                          \* methods made on its own (LyricsSpec)
    helper_call,          \* a call of a function of helpers.py (HelperSpec)
    setup_entry           \* a call of async_setup_entry (SetupSpec)

\* the objects the orchestrator, the mode resolution and the image cache
\* leave alone
unitVars == <<fallback_service, lyrics_provider, helper_call, setup_entry>>

vars == <<hass, config, media_data, image_cache, entry_data,
          display_update_lock, waiters, tasks, requests, call, rendered,
          fallback_service, lyrics_provider, helper_call, setup_entry>>

\* what the media player plays: a TV programme or music, with or without an
\* entity_picture
MediaKinds ==
    {[tv |-> FALSE, cover |-> TRUE],
     [tv |-> FALSE, cover |-> FALSE],
     [tv |-> TRUE, cover |-> FALSE]}

\* the states of the media player entity: it carries media attributes
\* while it plays or is paused
HassStates ==
    {[state |-> s, tv |-> k.tv, cover |-> k.cover] :
        s \in {"playing", "paused"}, k \in MediaKinds}
    \cup
    {[state |-> s, tv |-> FALSE, cover |-> FALSE] :
        s \in PlayerStates \ {"playing", "paused"}}

\* the media_position attribute: absent, or a number of seconds
Positions == {<<>>, <<0>>, <<3>>}

OffLike == {"off", "idle", "paused", "standby"}
SENTINELS ==
    {"fallback_tv_icon_sent", "fallback_info_text_sent",
     "fallback_black_screen_sent"}

Slots == 0..MaxDelayed
Holder == 0

(***************************************************************************)
(* media.py: MediaData.                                                    *)
(***************************************************************************)
MediaData ==
    [media_player_state |-> None,
     is_playing |-> FALSE,
     cover_url |-> None,
     current_mode |-> None,
     ai_prompt |-> None,
     lyrics |-> <<>>]

\* MediaData.update(): the snapshot of the entity h under configuration c;
\* the lyrics attribute is not assigned (the fetch is commented out)
update(md, h, c) ==
    LET playing == h.state = "playing"
        cover == IF h.cover THEN "cover" ELSE None
        kind == IF h.tv THEN "TV" ELSE "Music"
        mode ==
            IF ~playing /\ h.state # "paused"
            THEN (IF c.pixoo_show_clock THEN "Clock" ELSE "Off")
            ELSE kind
        prompt ==
            IF c.force_ai \/ (cover = None /\ playing /\ ~h.tv)
            THEN "prompt" ELSE None
    IN  [md EXCEPT !.media_player_state = h.state,
                   !.is_playing = playing,
                   !.cover_url = cover,
                   !.current_mode = mode,
                   !.ai_prompt = prompt]

(***************************************************************************)
(* Commands.  A task's log is the sequence of commands it has issued to    *)
(* the display (display_gif, send_text, item_list), to the lights          *)
(* (async_control_ha_light, async_control_wled_light), to the lyrics       *)
(* provider (calculate_position) and to the image cache (clear_cache, with *)
(* "stale" when entries were dropped), in the order of the calls.  The     *)
(* light entity and the WLED address are configured.                       *)
(***************************************************************************)
Cmd(c, a) == [cmd |-> c, arg |-> a]
Issue(t, c) == [t EXCEPT !.log = Append(@, c)]

NoTask ==
    [kind |-> "none", pc |-> "none", new_state |-> None, branch |-> None,
     src |-> None, b64 |-> None, key |-> <<>>, log |-> <<>>]
NewTask(kind, new_state) ==
    [NoTask EXCEPT !.kind = kind, !.pc = "start", !.new_state = new_state]

\* async_control_ha_light / async_control_wled_light with turn_on=False
LightsOff(t) ==
    Issue(Issue(t, Cmd("ha_light", {"off"})), Cmd("wled", {"off"}))

\* __init__.py:240-251: the light commands of the active branch
LightsSeg(t) ==
    LET should_turn_lights_on ==
            t.b64 # None /\ t.src # "fallback_black_screen_sent"
        colours == t.b64 = "image"
        ha == IF should_turn_lights_on
              THEN (IF colours THEN {"on", "rgb"} ELSE {"on"}) ELSE {"off"}
        wled == IF should_turn_lights_on
                THEN (IF colours THEN {"on", "color1"} ELSE {"on"}) ELSE {"off"}
    IN  Issue(Issue(t, Cmd("ha_light", ha)), Cmd("wled", wled))

\* a faulty GifSeg, which C11 must tell from the real one: the image is
\* written twice
GifSeg_twice(t) ==
    IF t.b64 # None
    THEN Issue(Issue(t, Cmd("display_gif", {t.b64})),
               Cmd("display_gif", {t.b64}))
    ELSE t

\* __init__.py:253-255: the image is written to the display
GifSeg(t) ==
    IF t.b64 # None THEN Issue(t, Cmd("display_gif", {t.b64})) ELSE t

\* __init__.py:260-301: the item-list overlay of the active branch
ItemsSeg(t, c) ==
    LET mode == c.display_mode_setting
        show_item_list ==
            /\ \/ mode \in {"Clock", "Clock | Temperature",
                            "Clock | Temperature | Text", "Temperature",
                            "Temperature | Text", "Special Mode",
                            "Special Mode | Text"}
               \/ (c.pixoo_special_mode
                   /\ (c.pixoo_show_clock \/ c.pixoo_temperature_enabled))
               \/ (t.b64 = None
                   /\ (c.pixoo_show_clock \/ c.pixoo_temperature_enabled))
            /\ mode \notin {"Album Art Only", "Lyrics Only", "Clean", "Burned"}
        item_list_for_pixoo ==
            (IF c.pixoo_show_clock \/ "clock" \in Found[mode]
             THEN {"clock"} ELSE {})
            \cup
            (IF c.pixoo_temperature_enabled \/ "temperature" \in Found[mode]
             THEN {"temperature"} ELSE {})
    IN  IF show_item_list /\ item_list_for_pixoo # {}
        THEN Issue(t, Cmd("item_list", item_list_for_pixoo))
        ELSE IF show_item_list /\ t.b64 # None
        THEN Issue(t, Cmd("item_list", {}))
        ELSE t

\* __init__.py:303-310: the lyrics tick; pos is the media_position attribute
LyricsSeg(t, md, c, pos) ==
    IF /\ c.pixoo_show_lyrics /\ md.lyrics # <<>> /\ md.is_playing
       /\ c.display_mode_setting
              \notin {"Clock", "Temperature", "Album Art Only", "Clean"}
    THEN Issue(t, Cmd("calculate_position",
                      IF pos # <<>> THEN {ToString(pos[1] * 1000)}
                      ELSE {ToString(0)}))
    ELSE t

\* __init__.py:240-314: from the light commands to the return
Render(t, md, c, pos) ==
    [LyricsSeg(ItemsSeg(GifSeg(LightsSeg(t)), c), md, c, pos)
        EXCEPT !.pc = "ret"]

\* fallback_service.py:387-415: the end of get_final_url
FinalStage(t, url, md, c) ==
    IF url = None
    THEN IF md.current_mode = "TV" /\ c.pixoo_tv_icon_enabled
         THEN [Issue(Issue(t, Cmd("send_text", {"TV Icon"})),
                     Cmd("display_gif", {"tv"}))
                 EXCEPT !.src = "fallback_tv_icon_sent", !.pc = "image"]
         ELSE IF c.pixoo_info_fallback
         THEN [Issue(Issue(t, Cmd("display_gif", {"black"})),
                     Cmd("send_text", {"info"}))
                 EXCEPT !.src = "fallback_info_text_sent", !.pc = "image"]
         ELSE [Issue(t, Cmd("display_gif", {"black"}))
                 EXCEPT !.src = "fallback_black_screen_sent", !.pc = "image"]
    ELSE [Issue(t, Cmd("send_text", {"Loading..."}))
            EXCEPT !.src = url, !.pc = "image"]

\* _async_execute_display_update from its first line to its first command,
\* md being the snapshot media_data_obj.update() has just taken
ExecBegin(t, md, c) ==
    IF ~md.is_playing /\ md.media_player_state \notin {"on", "paused"}
    THEN IF c.pixoo_full_control
         THEN [Issue(t, Cmd("display_gif", {"black"}))
                 EXCEPT !.branch = "inactive", !.pc = "off_items"]
         ELSE [LightsOff(t) EXCEPT !.branch = "inactive", !.pc = "ret"]
    ELSE IF /\ md.current_mode = "TV" /\ c.pixoo_tv_icon_enabled
            /\ md.cover_url = None
    THEN [Issue(t, Cmd("display_gif", {"tv"}))
            EXCEPT !.branch = "tv", !.pc = "off_lights"]
    ELSE IF md.cover_url # None /\ ~c.force_ai
    THEN FinalStage([t EXCEPT !.branch = "active"], md.cover_url, md, c)
    ELSE [Issue(t, Cmd("send_text", {"Searching..."}))
            EXCEPT !.branch = "active", !.pc = "resolve"]

(***************************************************************************)
(* image.py: the image cache of ImageProcessor.get_image.                  *)
(***************************************************************************)
\* the key material of get_image: the URL, the configuration tuple, is_cover
CacheKey(c, image_url, is_cover) ==
    [url |-> image_url,
     cfg |-> <<c.pixoo_crop_borders_enabled, c.pixoo_crop_borders_extra,
               c.pixoo_burned, c.pixoo_text_background_enabled,
               c.pixoo_special_mode, c.pixoo_show_clock,
               c.pixoo_temperature_enabled>>,
     is_cover |-> is_cover]

\* a faulty InCache, which C17 must tell from the real one: no key is found
InCache_never(cache, key) == FALSE

\* image.py:299: cache_key in self._image_cache; the cache is the dictionary
\* as the sequence of its items, in the order of insertion
InCache(cache, key) == \E i \in 1..Len(cache) : cache[i].key = key

\* image.py:301: self._image_cache[cache_key]
CacheGet(cache, key) ==
    cache[CHOOSE i \in 1..Len(cache) : cache[i].key = key].value

\* a faulty CacheInsert, which C18 must tell from the real one: the newest
\* entry is dropped at capacity
CacheInsert_evict_newest(cache, key, value, size) ==
    LET kept == IF Len(cache) >= size
                THEN SubSeq(cache, 1, Len(cache) - 1) ELSE cache
    IN  IF InCache(kept, key)
        THEN [i \in 1..Len(kept) |->
                 IF kept[i].key = key THEN [key |-> key, value |-> value]
                 ELSE kept[i]]
        ELSE Append(kept, [key |-> key, value |-> value])

\* a faulty CacheInsert, which C19 must tell from the real one: nothing is
\* dropped
CacheInsert_unbounded(cache, key, value, size) ==
    IF InCache(cache, key)
    THEN [i \in 1..Len(cache) |->
             IF cache[i].key = key THEN [key |-> key, value |-> value]
             ELSE cache[i]]
    ELSE Append(cache, [key |-> key, value |-> value])

\* image.py:312-313: at capacity the first key of the dictionary is looked
\* up to be dropped; next() raises StopIteration on the empty dictionary,
\* which leaves the coroutine as a RuntimeError
pop_raises(cache, size) == Len(cache) >= size /\ cache = <<>>

\* image.py:312-314: the first item of the dictionary is dropped at capacity,
\* then the entry is stored (a key already present keeps its place)
CacheInsert(cache, key, value, size) ==
    LET kept == IF Len(cache) >= size THEN SubSeq(cache, 2, Len(cache))
                ELSE cache
    IN  IF InCache(kept, key)
        THEN [i \in 1..Len(kept) |->
                 IF kept[i].key = key THEN [key |-> key, value |-> value]
                 ELSE kept[i]]
        ELSE Append(kept, [key |-> key, value |-> value])

\* image.py:149-266: _process_image_data; what it returns is a sequence, the
\* dictionary made from the bytes for the configuration of the key, or
\* nothing (None) when the decoding or the processing raised
process_image_data(image_data_bytes, key, ok) ==
    IF ok THEN <<[of |-> key, bytes |-> image_data_bytes]>> ELSE <<>>

\* a faulty StoreProcessed, which C20 must tell from the real one: what the
\* processing returned is stored even when it is nothing
StoreProcessed_always(cache, key, processed_image_dict, size) ==
    CacheInsert(cache, key, processed_image_dict, size)

\* image.py:311-315: a processed image is stored
StoreProcessed(cache, key, processed_image_dict, size) ==
    IF processed_image_dict # <<>>
    THEN CacheInsert(cache, key, processed_image_dict, size)
    ELSE cache

\* the get_image call that is made on its own: where it is, its key, what
\* the fetch returned and whether the processing went well, what the call
\* returned, and whether it fetched
NoCall ==
    [pc |-> "idle", key |-> <<>>, image_data_bytes |-> <<>>, ok |-> FALSE,
     result |-> <<>>, fetched |-> FALSE]

\* ImageProcessor.clear_cache
clear_cache(cache) == <<>>

(***************************************************************************)
(* The objects that are also exercised on their own, as constructed.       *)
(***************************************************************************)
\* FallbackService.__init__ and SpotifyService.__init__: nothing is stored
\* from a search yet, and no get_final_url call has been made.  A call
\* records the snapshot it was given, the stage it is at, the providers it
\* has asked with their answers, the commands it has sent to the display,
\* and what it returned
NoFallbackService ==
    [spotify_service |-> [artist_image_url |-> None,
                          first_album_image_url |-> None],
     pc |-> "idle", stage |-> 0,
     media_data |-> [cover_url |-> None, current_mode |-> None,
                     ai_prompt |-> None],
     final_image_url |-> None, asked |-> <<>>, log |-> <<>>, src |-> None]

\* LyricsProvider.__init__: no lyrics, nothing displayed (the empty text), no
\* clear task.  A call records its name, its argument, the index of the line
\* it selected, the commands it has sent to the display and the exception it
\* raised
NoLyricsProvider ==
    [lyrics_data |-> <<>>, last_lyrics_text |-> <<>>,
     clear_lyric_task |-> <<>>,
     called |-> None, argument |-> <<>>, current_lyric_idx |-> -1,
     sent |-> <<>>, raised |-> None]

\* async_setup_entry has not been called: what it will meet (the answer to
\* the probe, the state of the media player or None when the entity is
\* missing), and what it has done and how it ended
NoSetup ==
    [probe |-> "SelectIndex", initial_state |-> None, pc |-> "idle",
     raised |-> None, returned |-> FALSE, channel_index |-> <<>>,
     entry_data_stored |-> FALSE, media_player_listener |-> FALSE,
     initial_update |-> FALSE, platforms_forwarded |-> FALSE]

\* no function of helpers.py has been called: the argument that is drawn
\* (None here), and the calls made on it with what each returned
NoHelperCall ==
    [input |-> [type |-> "NoneType", chars |-> <<>>, items |-> <<>>],
     calls |-> <<>>]

(***************************************************************************)
(* The environment: the media player changes state, and a caller of        *)
(* force_update_function (a mode, crop or full-control change) asks for a  *)
(* refresh.  Both start a coroutine that waits for the lock.  The event    *)
(* loop runs a coroutine that can take the lock before it takes the next   *)
(* request and before any time passes.                                     *)
(***************************************************************************)
Runnable == ~display_update_lock /\ waiters # <<>>

StateChange ==
    /\ requests < MaxRequests
    /\ ~Runnable
    /\ requests' = requests + 1
    /\ \E h \in HassStates :
          /\ h # hass
          /\ hass' = h
          /\ waiters' = Append(waiters, [kind |-> "event",
                                          new_state |-> h.state,
                                          old_state |-> "State"])
          /\ entry_data' =
                 IF /\ entry_data.off_state_delay_timer # <<>>
                    /\ entry_data.off_state_delay_timer[1].state = "scheduled"
                    /\ hass.state = "paused" /\ h.state = "playing"
                    /\ h.tv = hass.tv /\ h.cover = hass.cover
                 THEN [entry_data EXCEPT
                          !.off_state_delay_timer[1].resumed = TRUE]
                 ELSE entry_data
    /\ UNCHANGED <<config, media_data, image_cache,
                   display_update_lock, tasks, call, rendered,
                   unitVars>>

ForceRequest ==
    /\ requests < MaxRequests
    /\ ~Runnable
    /\ requests' = requests + 1
    /\ waiters' = Append(waiters, [kind |-> "force", new_state |-> None,
                                    old_state |-> None])
    /\ UNCHANGED <<hass, config, media_data, image_cache, entry_data,
                   display_update_lock, tasks, call, rendered,
                   unitVars>>

(***************************************************************************)
(* __init__.py: the handlers.                                              *)
(***************************************************************************)
\* the handle async_call_later returns; it is fired when its delay has
\* elapsed and its callback has run.  resumed is history, not program state:
\* a "playing" event for the paused track has arrived since the timer was
\* scheduled
Timer(delay_seconds) ==
    [delay |-> delay_seconds, state |-> "scheduled", resumed |-> FALSE]
TimerPending(e) ==
    /\ e.off_state_delay_timer # <<>>
    /\ e.off_state_delay_timer[1].state \in {"scheduled", "due"}

\* a faulty cancel_off_state_delay_timer, which C35 must tell from the real
\* one: the handle is left as it is
cancel_off_state_delay_timer_kept(e) == e

\* __init__.py:350-354: a handle that is there is cancelled and dropped
cancel_off_state_delay_timer(e) == [e EXCEPT !.off_state_delay_timer = <<>>]

\* __init__.py:375-377
delay_seconds(new_state) == IF new_state = "paused" THEN 5 ELSE 0

\* a faulty StartedPlaying, which C5 must tell from the real one: a resume
\* from "paused" does not count as a start
StartedPlayingUnlessPaused(last_media_player_state, new_state) ==
    last_media_player_state \in {"off", "idle", "standby"}
        /\ new_state = "playing"

\* __init__.py:391: the image cache is flushed before this event is rendered
StartedPlaying(last_media_player_state, new_state) ==
    last_media_player_state \in OffLike /\ new_state = "playing"

\* wrapped_event_handler: the lock is taken and
\* _async_handle_media_player_update runs up to its first command.  The
\* event whose old_state is None (the one async_setup_entry makes up) raises
\* at __init__.py:343, None having no get(): the lock is released and
\* nothing else happens
wrapped_event_handler ==
    /\ ~display_update_lock
    /\ waiters # <<>>
    /\ Head(waiters).kind = "event"
    /\ waiters' = Tail(waiters)
    /\ LET new_state == Head(waiters).new_state
           cancelled == cancel_off_state_delay_timer(entry_data)
           started ==
               StartedPlaying(entry_data.last_media_player_state, new_state)
           t == IF started
                THEN Issue(NewTask("event", new_state),
                           Cmd("clear_cache",
                               IF image_cache # <<>> THEN {"stale"} ELSE {}))
                ELSE NewTask("event", new_state)
           md == update(media_data, hass, config)
       IN  IF Head(waiters).old_state = None
           THEN UNCHANGED <<media_data, image_cache, entry_data,
                            display_update_lock, tasks>>
           ELSE IF new_state \in OffLike
           THEN IF delay_seconds(new_state) > 0
                THEN /\ entry_data' =
                            [cancelled EXCEPT
                                !.off_state_delay_timer =
                                    <<Timer(delay_seconds(new_state))>>,
                                !.last_media_player_state = new_state]
                     /\ UNCHANGED <<media_data, image_cache,
                                    display_update_lock, tasks>>
                ELSE /\ entry_data' = cancelled
                     /\ media_data' = md
                     /\ display_update_lock' = TRUE
                     /\ tasks' = [tasks EXCEPT
                                    ![Holder] = ExecBegin(t, md, config)]
                     /\ UNCHANGED image_cache
           ELSE /\ image_cache' =
                       IF started THEN clear_cache(image_cache)
                       ELSE image_cache
                /\ entry_data' =
                       [cancelled EXCEPT !.last_media_player_state = new_state]
                /\ media_data' = md
                /\ display_update_lock' = TRUE
                /\ tasks' = [tasks EXCEPT ![Holder] = ExecBegin(t, md, config)]
    /\ UNCHANGED <<hass, config, requests, call, rendered,
                   unitVars>>

\* async_force_pixoo_update: the lock is taken and the update starts
async_force_pixoo_update ==
    /\ ~display_update_lock
    /\ waiters # <<>>
    /\ Head(waiters).kind = "force"
    /\ waiters' = Tail(waiters)
    /\ display_update_lock' = TRUE
    /\ media_data' = update(media_data, hass, config)
    /\ tasks' = [tasks EXCEPT
                    ![Holder] = ExecBegin(NewTask("force", None),
                                          media_data', config)]
    /\ UNCHANGED <<hass, config, image_cache, entry_data, requests, call,
                   rendered,
                   unitVars>>

FreeSlots == {s \in Slots \ {Holder} : tasks[s].kind = "none"}

\* the delay has elapsed and the timer fires: its callback creates
\* _delayed_off_processing_task, which runs, without the lock, up to its
\* first command
TimerFire ==
    /\ entry_data.off_state_delay_timer # <<>>
    /\ entry_data.off_state_delay_timer[1].state = "scheduled"
    /\ ~Runnable
    /\ FreeSlots # {}
    /\ entry_data' = [entry_data EXCEPT
                         !.off_state_delay_timer[1].state = "fired"]
    /\ media_data' = update(media_data, hass, config)
    /\ LET s == CHOOSE x \in FreeSlots : \A y \in FreeSlots : x <= y
       IN  tasks' = [tasks EXCEPT
                        ![s] = ExecBegin(NewTask("delayed", "paused"),
                                         media_data', config)]
    /\ UNCHANGED <<hass, config, image_cache, display_update_lock, waiters,
                   requests, call, rendered,
                   unitVars>>

(***************************************************************************)
(* _async_execute_display_update after its first command.  pc names the    *)
(* code a task runs next.                                                  *)
(***************************************************************************)
\* a task leaves; the lock holder releases the lock (async with)
Leave(s) ==
    /\ tasks' = [tasks EXCEPT ![s] = NoTask]
    /\ UNCHANGED <<requests, call, rendered,
                   unitVars>>
    /\ display_update_lock' =
           IF s = Holder THEN FALSE ELSE display_update_lock

Advance(s, t) ==
    /\ tasks' = [tasks EXCEPT ![s] = t]
    /\ UNCHANGED <<hass, config, media_data, image_cache, entry_data,
                   display_update_lock, waiters, requests, call, rendered,
                   unitVars>>

\* a faulty item_list_for_off_state, which C8 must tell from the real one:
\* the temperature item is left out
item_list_for_off_state_clock_only(c) ==
    IF c.pixoo_show_clock THEN {"clock"} ELSE {}

\* __init__.py:158-179: the items of the inactive branch
item_list_for_off_state(c) ==
    (IF c.pixoo_show_clock THEN {"clock"} ELSE {})
    \cup
    (IF c.pixoo_temperature_enabled THEN {"temperature"} ELSE {})

\* __init__.py:180-192: the item list of the inactive branch is sent, then
\* the lights are turned off
OffItems(s) ==
    /\ tasks[s].pc = "off_items"
    /\ LET t == tasks[s]
           listed ==
               IF item_list_for_off_state(config) # {}
               THEN Issue(t, Cmd("item_list", item_list_for_off_state(config)))
               ELSE IF config.pixoo_full_control
               THEN Issue(t, Cmd("item_list", {}))
               ELSE t
       IN  Advance(s, [LightsOff(listed) EXCEPT !.pc = "ret"])

\* __init__.py:199-202: the lights are turned off after the TV icon
OffLights(s) ==
    /\ tasks[s].pc = "off_lights"
    /\ Advance(s, [LightsOff(tasks[s]) EXCEPT !.pc = "ret"])

\* fallback_service.py:317-415: the providers answer (found) or not, then
\* the AI stage, then the sentinels
Resolve(s) ==
    /\ tasks[s].pc = "resolve"
    /\ \E found \in BOOLEAN :
          LET t == tasks[s]
              url == IF media_data.current_mode = "Music" /\ found
                     THEN "provider" ELSE None
              ai == Issue(t, Cmd("send_text", {"AI Image..."}))
          IN  IF config.force_ai \/ (url = None /\ media_data.ai_prompt # None)
              THEN IF media_data.ai_prompt # None
                   THEN Advance(s, FinalStage(ai, "ai", media_data, config))
                   ELSE Advance(s, FinalStage(
                                       Issue(ai, Cmd("send_text", {"AI Fail :("})),
                                       None, media_data, config))
              ELSE Advance(s, FinalStage(t, url, media_data, config))

\* __init__.py:212-219 and image.py:268-303: the source is a sentinel, or
\* get_image is called: it raises (MediaData has no get()) when the burned
\* caption is on, answers from the cache, or starts the fetch
Image(s) ==
    /\ tasks[s].pc = "image"
    /\ \E pos \in Positions :
          LET t == tasks[s]
              key == CacheKey(config, t.src, TRUE)
          IN  IF t.src = "fallback_black_screen_sent"
              THEN Advance(s, Render(LightsOff(t), media_data, config, pos))
              ELSE IF t.src \in SENTINELS
              THEN Advance(s, Render(t, media_data, config, pos))
              ELSE IF config.pixoo_burned
              THEN /\ Leave(s)
                   /\ UNCHANGED <<hass, config, media_data, image_cache,
                                  entry_data, waiters>>
              ELSE IF InCache(image_cache, key)
              THEN Advance(s, Render([Issue(t, Cmd("get_image", {t.src}))
                                         EXCEPT !.b64 = "image"],
                                     media_data, config, pos))
              ELSE Advance(s, [Issue(t, Cmd("get_image", {t.src}))
                                  EXCEPT !.key = <<key>>,
                                         !.pc = "image_fetch"])

\* image.py:303-317 and __init__.py:220-238: the fetch and the processing
\* succeed and the image is cached, or the ImagePipeline returns null and the
\* black screen is substituted
ImageFetch(s) ==
    /\ tasks[s].pc = "image_fetch"
    /\ \E ok \in BOOLEAN, pos \in Positions :
          LET t == tasks[s]
          IN  IF ok
              THEN /\ image_cache' =
                          StoreProcessed(
                              image_cache, t.key[1],
                              process_image_data("v1", t.key[1], TRUE),
                              config.pixoo_images_cache_size)
                   /\ tasks' = [tasks EXCEPT
                                   ![s] = Render([t EXCEPT !.b64 = "image"],
                                                 media_data, config, pos)]
              ELSE /\ UNCHANGED image_cache
                   /\ tasks' = [tasks EXCEPT
                                   ![s] = Render(LightsOff([t EXCEPT
                                                               !.b64 = "black"]),
                                                 media_data, config, pos)]
    /\ UNCHANGED <<hass, config, media_data, entry_data,
                   display_update_lock, waiters, requests, call, rendered,
                   unitVars>>

\* the off processing: _delayed_off_processing_task, fired or run inline
OffProcessing(t) ==
    \/ t.kind = "delayed"
    \/ (t.kind = "event" /\ t.new_state \in OffLike)

\* _async_execute_display_update returns: the off processing turns the
\* lights off once more (__init__.py:369-370), any other caller is done
Return(s) ==
    /\ tasks[s].pc = "ret"
    /\ IF OffProcessing(tasks[s])
       THEN Advance(s, [LightsOff(tasks[s]) EXCEPT !.pc = "fin"])
       ELSE /\ Leave(s)
            /\ UNCHANGED <<hass, config, media_data, image_cache,
                           entry_data, waiters>>

\* the off processing is done: the handler records the state it handled
\* (__init__.py:385) and releases the lock; the fired task ends
Finish(s) ==
    /\ tasks[s].pc = "fin"
    /\ Leave(s)
    /\ entry_data' =
           IF tasks[s].kind = "event"
           THEN [entry_data EXCEPT
                    !.last_media_player_state = tasks[s].new_state]
           ELSE entry_data
    /\ UNCHANGED <<hass, config, media_data, image_cache, waiters>>

(***************************************************************************)
(* The system.                                                             *)
(***************************************************************************)
\* the persisted options of the configurations that are checked
OptionProfiles ==
    {DefaultOptions("Default"),
     [DefaultOptions("Default") EXCEPT !.pixoo_full_control = FALSE,
                                       !.pixoo_info_fallback = TRUE,
                                       !.pixoo_tv_icon_enabled = FALSE],
     [DefaultOptions("Default") EXCEPT !.pixoo_show_clock = TRUE,
                                       !.pixoo_temperature_enabled = TRUE,
                                       !.pixoo_show_lyrics = TRUE],
     DefaultOptions("Clean"),
     DefaultOptions("Special Mode"),
     DefaultOptions("Burned"),
     DefaultOptions("AI Generation (Flux)")}

\* async_setup_entry: the objects are built and the made-up event of the
\* initial update waits for the lock
Init ==
    /\ \E o \in OptionProfiles : config = Config(o)
    /\ hass \in HassStates
    /\ media_data = MediaData
    /\ image_cache = <<>>
    /\ entry_data = [last_media_player_state |-> None,
                     off_state_delay_timer |-> <<>>]
    /\ display_update_lock = FALSE
    /\ waiters = <<[kind |-> "event", new_state |-> hass.state,
                    old_state |-> None]>>
    /\ tasks = [s \in Slots |-> NoTask]
    /\ requests = 0
    /\ call = NoCall
    /\ rendered = {}
    /\ fallback_service = NoFallbackService
    /\ lyrics_provider = NoLyricsProvider
    /\ helper_call = NoHelperCall
    /\ setup_entry = NoSetup

Step(s) ==
    \/ OffItems(s)
    \/ OffLights(s)
    \/ Resolve(s)
    \/ Image(s)
    \/ ImageFetch(s)
    \/ Return(s)
    \/ Finish(s)

Next ==
    \/ StateChange
    \/ ForceRequest
    \/ wrapped_event_handler
    \/ async_force_pixoo_update
    \/ TimerFire
    \/ \E s \in Slots : Step(s)

Spec == Init /\ [][Next]_vars

(***************************************************************************)
(* The system with its two select entities (SelectSpec): while events are  *)
(* handled and updates run, a display mode or a crop mode is selected.     *)
(***************************************************************************)
\* the display modes and the crop modes that are selected
SelectedDisplayModes == {"Default", "Clock"}
SelectedCropModes == {"Default", "Crop"}

SelectInit ==
    /\ config = Config(DefaultOptions("Default"))
    /\ hass \in HassStates
    /\ media_data = MediaData
    /\ image_cache = <<>>
    /\ entry_data = [last_media_player_state |-> None,
                     off_state_delay_timer |-> <<>>]
    /\ display_update_lock = FALSE
    /\ waiters = <<[kind |-> "event", new_state |-> hass.state,
                    old_state |-> None]>>
    /\ tasks = [s \in Slots |-> NoTask]
    /\ requests = 0
    /\ call = NoCall
    /\ rendered = {}
    /\ fallback_service = NoFallbackService
    /\ lyrics_provider = NoLyricsProvider
    /\ helper_call = NoHelperCall
    /\ setup_entry = NoSetup

\* input_select.py:85-110 and 141-166: async_select_option up to its await
\* of force_update_function: the setting is stored and resolved on the live
\* Config, the image cache is cleared, and the forced update waits for the
\* lock.  Nothing of this waits for the lock
async_select_option ==
    /\ requests < MaxRequests
    /\ ~Runnable
    /\ requests' = requests + 1
    /\ \/ \E option \in SelectedDisplayModes :
             config' = apply_display_mode_settings(
                           [config EXCEPT !.display_mode_setting = option],
                           option)
       \/ \E option \in SelectedCropModes :
             config' = apply_crop_mode_settings(
                           [config EXCEPT !.crop_mode_setting = option],
                           option)
    /\ image_cache' = clear_cache(image_cache)
    /\ waiters' = Append(waiters, [kind |-> "force", new_state |-> None,
                                    old_state |-> None])
    /\ UNCHANGED <<hass, media_data, entry_data, display_update_lock, tasks,
                   call, rendered, unitVars>>

SelectNext == Next \/ async_select_option

SelectSpec == SelectInit /\ [][SelectNext]_vars

(***************************************************************************)
(* The mode resolution on its own: a Config is built from persisted        *)
(* options, then display modes and crop modes are applied to it in any     *)
(* order, as the two select entities do (input_select.py:95-96, 151-152).  *)
(***************************************************************************)
\* the persisted options: the combinations of the display flags (the
\* slide show following the special mode) and the AI model with the default
\* crop flags, every pair of crop flags with the default display flags, and
\* the enum-valued options (AI model, clock alignment, lyrics font) with
\* values of their lists and values outside them: an unknown name, a font
\* number that is not listed, a font given as a string of digits or letters
ResolverOptions ==
    {[DefaultOptions("Default") EXCEPT
         !.pixoo_show_lyrics = ly, !.pixoo_spotify_slide = sp,
         !.pixoo_special_mode = sp, !.pixoo_show_clock = ck,
         !.pixoo_temperature_enabled = te, !.pixoo_show_text_enabled = tx,
         !.pixoo_text_background_enabled = bg, !.force_ai = ai,
         !.ai_fallback_model = model] :
        ly \in BOOLEAN, sp \in BOOLEAN, ck \in BOOLEAN,
        te \in BOOLEAN, tx \in BOOLEAN, bg \in BOOLEAN, ai \in BOOLEAN,
        model \in AI_FALLBACK_MODEL_OPTIONS}
    \cup
    {[DefaultOptions("Default") EXCEPT
         !.pixoo_crop_borders_enabled = ce,
         !.pixoo_crop_borders_extra = cx] :
        ce \in BOOLEAN, cx \in BOOLEAN}
    \cup
    {[DefaultOptions("Default") EXCEPT
         !.ai_fallback_model = model,
         !.pixoo_clock_align = align,
         !.pixoo_lyrics_font = font] :
        model \in AI_FALLBACK_MODEL_OPTIONS \cup {"dall-e"},
        align \in CLOCK_ALIGN_OPTIONS \cup {"Center"},
        font \in {IntValue(190), IntValue(7), StrValue(<<"6", "2">>),
                  StrValue(<<"b", "i", "g">>)}}

ConfigInit ==
    /\ \E o \in ResolverOptions, mode \in ModeStrings, crop \in CropStrings :
          config = Config([o EXCEPT !.display_mode_setting = mode,
                                    !.crop_mode_setting = crop])
    /\ hass = [state |-> "off", tv |-> FALSE, cover |-> FALSE]
    /\ media_data = MediaData
    /\ image_cache = <<>>
    /\ entry_data = [last_media_player_state |-> None,
                     off_state_delay_timer |-> <<>>]
    /\ display_update_lock = FALSE
    /\ waiters = <<>>
    /\ tasks = [s \in Slots |-> NoTask]
    /\ requests = 0
    /\ call = NoCall
    /\ rendered = {}
    /\ fallback_service = NoFallbackService
    /\ lyrics_provider = NoLyricsProvider
    /\ helper_call = NoHelperCall
    /\ setup_entry = NoSetup

\* a display mode is selected: the setting is stored and resolved
ApplyDisplayMode ==
    /\ \E option \in ModeStrings :
          config' = apply_display_mode_settings(
                        [config EXCEPT !.display_mode_setting = option],
                        option)
    /\ UNCHANGED <<hass, media_data, image_cache, entry_data,
                   display_update_lock, waiters, tasks, requests, call,
                   rendered,
                   unitVars>>

\* a crop mode is selected: the setting is stored and resolved
ApplyCropMode ==
    /\ \E option \in CropStrings :
          config' = apply_crop_mode_settings(
                        [config EXCEPT !.crop_mode_setting = option], option)
    /\ UNCHANGED <<hass, media_data, image_cache, entry_data,
                   display_update_lock, waiters, tasks, requests, call,
                   rendered,
                   unitVars>>

ConfigNext == ApplyDisplayMode \/ ApplyCropMode

ConfigSpec == ConfigInit /\ [][ConfigNext]_vars

(***************************************************************************)
(* The image cache on its own: get_image is called for one URL after       *)
(* another, each call runs to its end before the next begins, and the      *)
(* cache is cleared now and then (a mode is selected, playback starts).    *)
(***************************************************************************)
\* the URLs asked for; <<>> is the absent one (None or the empty string)
Urls == {<<u>> : u \in 1..MaxUrls}

\* what a fetch of a URL can return: the content changes over time
ImageBytes == {"v1", "v2"}

\* config.py:101 and config_flow.py:232: the capacities of the cache that are
\* tried; the form takes any integer
Capacities == -1..MaxCapacity

CacheInit ==
    /\ \E n \in Capacities :
          config = Config([DefaultOptions("Default")
                              EXCEPT !.pixoo_images_cache_size = n])
    /\ hass = [state |-> "off", tv |-> FALSE, cover |-> FALSE]
    /\ media_data = MediaData
    /\ image_cache = <<>>
    /\ entry_data = [last_media_player_state |-> None,
                     off_state_delay_timer |-> <<>>]
    /\ display_update_lock = FALSE
    /\ waiters = <<>>
    /\ tasks = [s \in Slots |-> NoTask]
    /\ requests = 0
    /\ call = NoCall
    /\ rendered = {}
    /\ fallback_service = NoFallbackService
    /\ lyrics_provider = NoLyricsProvider
    /\ helper_call = NoHelperCall
    /\ setup_entry = NoSetup

\* image.py:268-301: get_image up to its first await: no URL, the burned
\* caption (MediaData has no get(): the call raises), a hit, or a miss
get_image ==
    /\ call.pc # "fetch"
    /\ \E image_url \in Urls \cup {<<>>}, is_cover \in {TRUE} :
          LET cache_key == CacheKey(config, image_url, is_cover)
          IN  call' =
                  IF image_url = <<>>
                  THEN [NoCall EXCEPT !.pc = "done"]
                  ELSE IF config.pixoo_burned /\ is_cover
                  THEN [NoCall EXCEPT !.pc = "raised"]
                  ELSE IF InCache(image_cache, cache_key)
                  THEN [NoCall EXCEPT
                           !.pc = "done", !.key = <<cache_key>>,
                           !.result = CacheGet(image_cache, cache_key)]
                  ELSE [NoCall EXCEPT !.pc = "fetch", !.key = <<cache_key>>]
    /\ UNCHANGED <<hass, config, media_data, image_cache, entry_data,
                   display_update_lock, waiters, tasks, requests, rendered,
                   unitVars>>

\* image.py:303-317: the fetch returns bytes or nothing, the processing
\* returns the image or nothing, the image is stored and returned; the call
\* raises when the image is to be stored in an empty cache that is at its
\* capacity
get_image_fetch ==
    /\ call.pc = "fetch"
    /\ \E image_data_bytes \in {<<>>} \cup {<<b>> : b \in ImageBytes},
          ok \in BOOLEAN :
          LET cache_key == call.key[1]
              processed_image_dict ==
                  IF image_data_bytes = <<>> THEN <<>>
                  ELSE process_image_data(image_data_bytes[1], cache_key, ok)
              raised ==
                  /\ processed_image_dict # <<>>
                  /\ pop_raises(image_cache, config.pixoo_images_cache_size)
          IN  /\ image_cache' =
                     IF raised THEN image_cache
                     ELSE StoreProcessed(image_cache, cache_key,
                                         processed_image_dict,
                                         config.pixoo_images_cache_size)
              /\ call' = [call EXCEPT
                             !.pc = IF raised THEN "raised" ELSE "done",
                             !.image_data_bytes = image_data_bytes,
                             !.ok = ok,
                             !.result = IF raised THEN <<>>
                                        ELSE processed_image_dict,
                             !.fetched = TRUE]
              /\ rendered' =
                     IF processed_image_dict # <<>> /\ ~raised
                     THEN {r \in rendered : r.key # cache_key}
                              \cup {[key |-> cache_key,
                                     value |-> processed_image_dict]}
                     ELSE rendered
    /\ UNCHANGED <<hass, config, media_data, entry_data,
                   display_update_lock, waiters, tasks, requests, unitVars>>

\* image.py:319-321, called at __init__.py:393 and input_select.py:99, 155
CacheCleared ==
    /\ image_cache # <<>> \/ rendered # {}
    /\ image_cache' = clear_cache(image_cache)
    /\ rendered' = {}
    /\ UNCHANGED <<hass, config, media_data, entry_data,
                   display_update_lock, waiters, tasks, requests, call,
                   unitVars>>

CacheNext == get_image \/ get_image_fetch \/ CacheCleared

CacheSpec == CacheInit /\ [][CacheNext]_vars

(***************************************************************************)
(* The artwork resolution on its own: get_final_url is called for one      *)
(* snapshot after another, each call runs to its end before the next       *)
(* begins, and every provider that is asked answers with a URL or nothing. *)
(***************************************************************************)
\* fallback_service.py:317-385: the stages after the direct cover URL, in the
\* order of the code, under the names the code gives the sources
STAGES ==
    <<"Spotify (Album)", "Discogs", "Last.fm", "TIDAL", "MusicBrainz/CAA",
      "Spotify (Artist)", "Spotify (First Album Match)", "AI">>

\* a search of an earlier call is told from one of the call in progress by
\* the URL it stored
EarlierTrack(url) ==
    CASE url = "spotify artist image" -> "spotify artist image, earlier track"
      [] url = "spotify album image" -> "spotify album image, earlier track"
      [] OTHER -> url

\* a faulty StageGuard, which C21 must tell from the real one: Discogs is
\* asked without a token
StageGuard_discogs_without_token(stage, c, md, sp, final_image_url) ==
    CASE stage = 1 ->
            /\ md.current_mode = "Music" /\ final_image_url = None
            /\ c.spotify_client_id # None /\ c.spotify_client_secret # None
      [] stage = 2 ->
            final_image_url = None /\ md.current_mode = "Music"
      [] stage = 3 ->
            /\ final_image_url = None /\ md.current_mode = "Music"
            /\ c.lastfm_api_key # None
      [] stage = 4 ->
            /\ final_image_url = None /\ md.current_mode = "Music"
            /\ c.tidal_client_id # None /\ c.tidal_client_secret # None
      [] stage = 5 ->
            /\ final_image_url = None /\ md.current_mode = "Music"
            /\ c.musicbrainz_enabled
      [] stage = 6 ->
            /\ final_image_url = None /\ md.current_mode = "Music"
            /\ sp.artist_image_url # None
      [] stage = 7 ->
            /\ final_image_url = None /\ md.current_mode = "Music"
            /\ sp.first_album_image_url # None
      [] stage = 8 ->
            c.force_ai \/ (final_image_url = None /\ md.ai_prompt # None)

\* fallback_service.py:320, 330, 338, 346, 354, 362, 369, 377: the condition
\* under which a stage is tried
StageGuard(stage, c, md, sp, final_image_url) ==
    CASE stage = 1 ->
            /\ md.current_mode = "Music" /\ final_image_url = None
            /\ c.spotify_client_id # None /\ c.spotify_client_secret # None
      [] stage = 2 ->
            /\ final_image_url = None /\ md.current_mode = "Music"
            /\ c.discogs_api_token # None
      [] stage = 3 ->
            /\ final_image_url = None /\ md.current_mode = "Music"
            /\ c.lastfm_api_key # None
      [] stage = 4 ->
            /\ final_image_url = None /\ md.current_mode = "Music"
            /\ c.tidal_client_id # None /\ c.tidal_client_secret # None
      [] stage = 5 ->
            /\ final_image_url = None /\ md.current_mode = "Music"
            /\ c.musicbrainz_enabled
      [] stage = 6 ->
            /\ final_image_url = None /\ md.current_mode = "Music"
            /\ sp.artist_image_url # None
      [] stage = 7 ->
            /\ final_image_url = None /\ md.current_mode = "Music"
            /\ sp.first_album_image_url # None
      [] stage = 8 ->
            c.force_ai \/ (final_image_url = None /\ md.ai_prompt # None)

\* spotify_service.py:100-140: what get_spotify_album_id_and_image can leave
\* in the two stored URLs; the first is also the URL it returns.  No track is
\* found (both are reset), or a track is found, with or without images of
\* its album (without, the stored URL stays) and with or without an image of
\* its artist (with no artist at all, the stored URL stays)
SpotifySearches(sp) ==
    {[first_album_image_url |-> None, artist_image_url |-> None]}
    \cup
    {[first_album_image_url |-> album, artist_image_url |-> artist] :
        album \in {"spotify album image", sp.first_album_image_url},
        artist \in {"spotify artist image", None, sp.artist_image_url}}

\* what a stage can yield: the answer of the provider, the stored URL, or
\* the URL made from the prompt (fallback_service.py:193-195, 245-250); the
\* TIDAL stage is a placeholder that yields nothing (fallback_service.py:183)
StageAnswers(stage, md, sp) ==
    CASE stage = 2 -> {None, "discogs image"}
      [] stage = 3 -> {None, "lastfm image"}
      [] stage = 4 -> {None}
      [] stage = 5 -> {None, "musicbrainz image"}
      [] stage = 6 -> {sp.artist_image_url}
      [] stage = 7 -> {sp.first_album_image_url}
      [] stage = 8 -> {IF md.ai_prompt # None THEN "ai image" ELSE None}

\* the snapshots get_final_url is called with: MediaData.update() makes the
\* prompt when force_ai is set or when there is no cover and the medium is
\* not TV (media.py:187), and format_ai_image_prompt can return nothing
Snapshots(c) ==
    {md \in [cover_url : {None, "cover"}, current_mode : {"Music", "TV"},
             ai_prompt : {None, "prompt"}] :
        md.ai_prompt # None
          => (c.force_ai \/ (md.cover_url = None /\ md.current_mode # "TV"))}

\* the credentials that are configured
Credentials ==
    [spotify_client_id : {None, "id"}, spotify_client_secret : {None, "secret"},
     discogs_api_token : {None, "token"}, lastfm_api_key : {None, "key"},
     tidal : {None, "tidal"}, musicbrainz_enabled : BOOLEAN]

FallbackInit ==
    /\ \E cr \in Credentials, force_ai \in BOOLEAN :
          /\ cr.spotify_client_secret # None => cr.spotify_client_id # None
          /\ config =
                Config([DefaultOptions("Default") EXCEPT
                           !.force_ai = force_ai,
                           !.spotify_client_id = cr.spotify_client_id,
                           !.spotify_client_secret = cr.spotify_client_secret,
                           !.discogs_api_token = cr.discogs_api_token,
                           !.lastfm_api_key = cr.lastfm_api_key,
                           !.tidal_client_id = cr.tidal,
                           !.tidal_client_secret = cr.tidal,
                           !.musicbrainz_enabled = cr.musicbrainz_enabled])
    /\ hass = [state |-> "off", tv |-> FALSE, cover |-> FALSE]
    /\ media_data = MediaData
    /\ image_cache = <<>>
    /\ entry_data = [last_media_player_state |-> None,
                     off_state_delay_timer |-> <<>>]
    /\ display_update_lock = FALSE
    /\ waiters = <<>>
    /\ tasks = [s \in Slots |-> NoTask]
    /\ requests = 0
    /\ call = NoCall
    /\ rendered = {}
    /\ fallback_service = NoFallbackService
    /\ lyrics_provider = NoLyricsProvider
    /\ helper_call = NoHelperCall
    /\ setup_entry = NoSetup

\* the variables a call of get_final_url leaves alone
FallbackUnchanged ==
    UNCHANGED <<hass, config, media_data, image_cache, entry_data,
                display_update_lock, waiters, tasks, requests, call, rendered,
                lyrics_provider, helper_call, setup_entry>>

\* fallback_service.py:296-315: the direct cover URL, or the fallback
\* sequence begins with the progress text
get_final_url ==
    /\ fallback_service.pc \in {"idle", "done"}
    /\ \E md \in Snapshots(config) :
          LET sp == fallback_service.spotify_service
              begun ==
                  [NoFallbackService EXCEPT
                      !.spotify_service =
                          [artist_image_url |->
                               EarlierTrack(sp.artist_image_url),
                           first_album_image_url |->
                               EarlierTrack(sp.first_album_image_url)],
                      !.media_data = md,
                      !.final_image_url =
                          IF md.cover_url # None /\ ~config.force_ai
                          THEN md.cover_url ELSE None]
          IN  fallback_service' =
                  IF begun.final_image_url = None \/ config.force_ai
                  THEN [Issue(begun, Cmd("send_text", {"Searching..."}))
                           EXCEPT !.pc = "stages", !.stage = 1]
                  ELSE [begun EXCEPT !.pc = "final"]
    /\ FallbackUnchanged

\* fallback_service.py:319-385: the next stage is tried, if its condition
\* holds, or passed over
FallbackStage ==
    /\ fallback_service.pc = "stages"
    /\ LET f == fallback_service
           stage == f.stage
           next == IF stage = Len(STAGES)
                   THEN [f EXCEPT !.pc = "final"]
                   ELSE [f EXCEPT !.stage = stage + 1]
       IN  IF ~StageGuard(stage, config, f.media_data, f.spotify_service,
                          f.final_image_url)
           THEN fallback_service' = next
           ELSE IF stage = 1
           THEN \E found \in SpotifySearches(f.spotify_service) :
                   LET url == IF found.first_album_image_url
                                     = "spotify album image"
                              THEN found.first_album_image_url ELSE None
                   IN  fallback_service' =
                           [next EXCEPT
                               !.spotify_service = found,
                               !.final_image_url = url,
                               !.asked = Append(@, [stage |-> stage,
                                                    url |-> url])]
           ELSE \E url \in StageAnswers(stage, f.media_data,
                                        f.spotify_service) :
                   LET asked == [next EXCEPT
                                    !.final_image_url = url,
                                    !.asked = Append(@, [stage |-> stage,
                                                         url |-> url])]
                       ai == Issue(asked, Cmd("send_text", {"AI Image..."}))
                   IN  fallback_service' =
                           IF stage # 8 THEN asked
                           ELSE IF url # None THEN ai
                           ELSE Issue(ai, Cmd("send_text", {"AI Fail :("}))
    /\ FallbackUnchanged

\* fallback_service.py:387-415: the sentinels, or the progress text and the
\* URL
FallbackReturn ==
    /\ fallback_service.pc = "final"
    /\ fallback_service' =
          [FinalStage(fallback_service, fallback_service.final_image_url,
                      fallback_service.media_data, config)
              EXCEPT !.pc = "done"]
    /\ FallbackUnchanged

FallbackNext == get_final_url \/ FallbackStage \/ FallbackReturn

FallbackSpec == FallbackInit /\ [][FallbackNext]_vars

(***************************************************************************)
(* lyrics_provider.py: LyricsProvider on its own (LyricsSpec).  A lyric    *)
(* text is the sequence of its words, as str.split(' ') gives them; the    *)
(* empty string is the empty sequence.  A lyric line is the pair           *)
(* <<time_ms, text>>.                                                      *)
(***************************************************************************)
\* the text of the i-th line of an answer
LineTexts ==
    << <<"a">>, <<"b">>, <<"c">>, <<"never", "gonna", "give", "you", "up">> >>

\* the "seconds" of a line of an answer
Seconds == {0, 5, 9}

\* the player positions of a tick, in milliseconds
PositionsMs == {0, 4999, 5000, 8999, 9000, 20000}

\* the configured sync offsets
SyncOffsets == {-1, 0, 1000}

\* an item of an answer: its seconds, and whether its "lyrics" is a text or
\* blank (all whitespace)
Items == (Seconds \X {TRUE}) \cup {<<5, FALSE>>}

\* the JSON lists of {"seconds", "lyrics"} items with n items, in any order
\* of their seconds
ItemLists(n) ==
    {[i \in 1..n |-> [seconds |-> f[i][1],
                      lyrics |-> IF f[i][2] THEN LineTexts[i] ELSE <<>>]] :
        f \in [1..n -> Items]}

\* what a fetch can meet (lyrics_provider.py:49-107)
Answers ==
    {[kind |-> k, items |-> <<>>] :
        k \in {"no artist or title", "network error", "timeout", "status 404",
               "html", "not json", "not a list", "flat strings"}}
    \cup {[kind |-> "list", items |-> items] :
            items \in UNION {ItemLists(n) : n \in 0..MaxLines}}

\* lyrics_provider.py:38-43
cancel_timed_clear(lp) == [lp EXCEPT !.clear_lyric_task = <<>>]

\* lyrics_provider.py:76-82: the items in the order of the answer, without
\* the blank ones; int(float(seconds) * 1000)
RECURSIVE parsed_lyrics(_)
parsed_lyrics(items) ==
    IF items = <<>> THEN <<>>
    ELSE LET item == Head(items)
             time_ms == item.seconds * 1000
             text == item.lyrics
         IN  IF text # <<>>
             THEN <<<<time_ms, text>>>> \o parsed_lyrics(Tail(items))
             ELSE parsed_lyrics(Tail(items))

\* lyrics_provider.py:120-121 with the -1 of the configuration kept as it is
sync_offset_ms_unset_kept(c) == c.pixoo_lyrics_sync

\* lyrics_provider.py:120-121
sync_offset_ms(c) ==
    IF c.pixoo_lyrics_sync = -1 THEN 0 ELSE c.pixoo_lyrics_sync

\* lyrics_provider.py:123-125: no line is selected
NoLine ==
    [current_lyric_text |-> <<>>, current_lyric_original_time_ms |-> -1,
     current_lyric_idx |-> -1]

\* lyrics_provider.py:127-134: the loop from index idx on; a line whose
\* adjusted time has come replaces the selection, the first line whose time
\* has not come ends the loop
RECURSIVE select_line(_, _, _, _, _)
select_line(lyrics_data, offset, current_position_ms, idx, current) ==
    IF idx >= Len(lyrics_data) THEN current
    ELSE LET original_lyric_time_ms == lyrics_data[idx + 1][1]
             text_line == lyrics_data[idx + 1][2]
             adjusted_display_time_ms == original_lyric_time_ms + offset
         IN  IF current_position_ms >= adjusted_display_time_ms
             THEN select_line(lyrics_data, offset, current_position_ms, idx + 1,
                      [current_lyric_text |-> text_line,
                       current_lyric_original_time_ms |-> original_lyric_time_ms,
                       current_lyric_idx |-> idx])
             ELSE current

\* lyrics_provider.py:199-200
char_limits ==
    [font \in {2, 4, 32, 52, 58, 62, 48, 80, 158, 186, 190, 590} |->
        CASE font \in {2, 32, 48} -> 12
          [] font \in {4, 52, 80, 190} -> 10
          [] font \in {58, 158, 590} -> 8
          [] font \in {62, 186} -> 7]
max_chars(font_choice) ==
    IF font_choice \in DOMAIN char_limits THEN char_limits[font_choice]
    ELSE 10

\* lyrics_provider.py:207-220: the words go to the first line while they
\* fit, then to the second; the first word that fits neither is added to the
\* second line and ends the loop.  A line's length counter takes one more
\* than the word for every word (the line is not empty when line 211 or 214
\* tests it)
RECURSIVE wrap(_, _, _, _, _, _)
wrap(words, limit, line1, current_len_line1, line2, current_len_line2) ==
    IF words = <<>> THEN <<line1, line2>>
    ELSE LET word == Head(words)
             word_len == Len(word)
         IN  IF current_len_line1 + word_len
                    + (IF line1 # <<>> THEN 1 ELSE 0) <= limit
             THEN wrap(Tail(words), limit, Append(line1, word),
                       current_len_line1 + word_len + 1,
                       line2, current_len_line2)
             ELSE IF current_len_line2 + word_len
                        + (IF line2 # <<>> THEN 1 ELSE 0) <= limit
             THEN wrap(Tail(words), limit, line1, current_len_line1,
                       Append(line2, word), current_len_line2 + word_len + 1)
             ELSE <<line1, Append(line2, word)>>

\* lyrics_provider.py:222-224
display_lines(text, font_choice) ==
    LET lines == wrap(text, max_chars(font_choice), <<>>, 0, <<>>, 0)
    IN  IF lines[2] # <<>> THEN <<lines[1], lines[2]>> ELSE <<lines[1]>>

ClearHttpText == [Command |-> "Draw/ClearHttpText"]

\* lyrics_provider.py:187-282: the list starts with the clear command; the
\* first line that is not empty is appended to `payloads` at line 272, a name
\* that create_lyrics_payloads and the module do not define (the list is
\* payload_list), which raises NameError
create_lyrics_payloads(text, c) ==
    LET payload_list == <<ClearHttpText>>
        lines == display_lines(text, c.pixoo_lyrics_font.int)
    IN  IF \E i \in 1..Len(lines) : lines[i] # <<>>
        THEN [raised |-> "NameError", payload_list |-> <<>>]
        ELSE [raised |-> None, payload_list |-> payload_list]

\* lyrics_provider.py:152-162: the delay of the timed clear of line idx
duration_ms(lyrics_data, current) ==
    LET idx == current.current_lyric_idx
    IN  IF idx = -1 THEN 0
        ELSE IF idx + 1 < Len(lyrics_data)
        THEN LET calculated_duration_ms ==
                     lyrics_data[idx + 2][1]
                        - current.current_lyric_original_time_ms
                 capped == IF calculated_duration_ms < 15000
                           THEN calculated_duration_ms ELSE 15000
             IN  IF capped > 0 THEN capped ELSE 0
        ELSE 10000

\* the configurations of the lyrics display
LyricsInit ==
    /\ \E show \in BOOLEAN, sync \in SyncOffsets :
          config = Config([DefaultOptions("Default") EXCEPT
                              !.pixoo_show_lyrics = show,
                              !.pixoo_lyrics_sync = sync])
    /\ hass = [state |-> "off", tv |-> FALSE, cover |-> FALSE]
    /\ media_data = MediaData
    /\ image_cache = <<>>
    /\ entry_data = [last_media_player_state |-> None,
                     off_state_delay_timer |-> <<>>]
    /\ display_update_lock = FALSE
    /\ waiters = <<>>
    /\ tasks = [s \in Slots |-> NoTask]
    /\ requests = 0
    /\ call = NoCall
    /\ rendered = {}
    /\ fallback_service = NoFallbackService
    /\ lyrics_provider = NoLyricsProvider
    /\ helper_call = NoHelperCall
    /\ setup_entry = NoSetup

\* the variables a call of the lyrics provider leaves alone
LyricsUnchanged ==
    UNCHANGED <<hass, config, media_data, image_cache, entry_data,
                display_update_lock, waiters, tasks, requests, call, rendered,
                fallback_service, helper_call, setup_entry>>

\* a call begins: the record of the previous call is dropped
LyricsCall(lp, name, argument) ==
    [lp EXCEPT !.called = name, !.argument = <<argument>>,
               !.current_lyric_idx = -1, !.sent = <<>>, !.raised = None]

\* lyrics_provider.py:45-107: the pending clear is cancelled, the list is
\* emptied, and only a JSON list of items replaces it; every failure is
\* caught and leaves the empty list.  last_lyrics_text is not assigned
get_lyrics ==
    /\ \E answer \in Answers :
          lyrics_provider' =
              [LyricsCall(cancel_timed_clear(lyrics_provider),
                          "get_lyrics", answer)
                  EXCEPT !.lyrics_data =
                             IF answer.kind = "list"
                             THEN parsed_lyrics(answer.items) ELSE <<>>]
    /\ LyricsUnchanged

\* lyrics_provider.py:109-184: one tick at a player position
calculate_position ==
    /\ \E current_position_ms \in PositionsMs :
          LET lp == LyricsCall(cancel_timed_clear(lyrics_provider),
                               "calculate_position", current_position_ms)
              current == select_line(lp.lyrics_data, sync_offset_ms(config),
                                     current_position_ms, 0, NoLine)
              current_lyric_text == current.current_lyric_text
              made == create_lyrics_payloads(current_lyric_text, config)
              delay == duration_ms(lp.lyrics_data, current)
          IN  lyrics_provider' =
                IF lp.lyrics_data = <<>> \/ ~config.pixoo_show_lyrics
                THEN IF lp.last_lyrics_text # <<>>
                     THEN [lp EXCEPT !.sent = <<ClearHttpText>>,
                                     !.last_lyrics_text = <<>>]
                     ELSE lp
                ELSE IF /\ current_lyric_text # <<>>
                        /\ current_lyric_text # lp.last_lyrics_text
                THEN IF made.raised # None
                     THEN [lp EXCEPT
                              !.last_lyrics_text = current_lyric_text,
                              !.current_lyric_idx = current.current_lyric_idx,
                              !.raised = made.raised]
                     ELSE [lp EXCEPT
                              !.last_lyrics_text = current_lyric_text,
                              !.current_lyric_idx = current.current_lyric_idx,
                              !.sent = made.payload_list,
                              !.clear_lyric_task =
                                  IF delay > 0
                                  THEN <<[scheduled_for |-> current_lyric_text,
                                          delay_ms |-> delay]>>
                                  ELSE <<>>]
                ELSE IF current_lyric_text = <<>> /\ lp.last_lyrics_text # <<>>
                THEN [lp EXCEPT
                         !.current_lyric_idx = current.current_lyric_idx,
                         !.sent = <<ClearHttpText>>,
                         !.last_lyrics_text = <<>>]
                ELSE [lp EXCEPT
                         !.current_lyric_idx = current.current_lyric_idx]
    /\ LyricsUnchanged

LyricsNext == get_lyrics \/ calculate_position

LyricsSpec == LyricsInit /\ [][LyricsNext]_vars

(***************************************************************************)
(* helpers.py: hex_to_rgb_list and rgb_to_hex on their own (HelperSpec).   *)
(* A Python value is its type with the characters of a string or the       *)
(* members of a list or tuple; a member is an integer or a string.         *)
(***************************************************************************)
PyNone == [type |-> "NoneType", chars |-> <<>>, items |-> <<>>]
PyStr(chars) == [type |-> "str", chars |-> chars, items |-> <<>>]
PyList(items) == [type |-> "list", chars |-> <<>>, items |-> items]
PyTuple(items) == [type |-> "tuple", chars |-> <<>>, items |-> items]

\* the characters after the '#'s of a colour string that are tried: hex
\* digits in both cases, a sign and a letter that is no hex digit
BodyChars == {"0", "a", "F", "-", "g"}

\* the colour strings: up to two '#' before up to MaxLen characters
HexStrings ==
    {PyStr([i \in 1..k |-> "#"] \o body) :
        k \in 0..2, body \in UNION {[1..n -> BodyChars] : n \in 0..MaxLen}}

\* the members of the lists and tuples that are tried
Members ==
    {IntValue(i) : i \in {-1, 0, 10, 255, 256, 1000}} \cup {StrValue(<<"a">>)}

\* the arguments rgb_to_hex is given: lists and tuples of two to four
\* members, a string and None
RgbArguments ==
    {PyTuple(items) : items \in UNION {[1..n -> Members] : n \in 2..4}}
    \cup {PyList(items) : items \in [1..3 -> Members]}
    \cup {PyStr(<<"n", "o">>), PyNone}

\* the value of a hex digit (int(s, 16))
HexValue ==
    [d \in {"0", "1", "2", "3", "4", "5", "6", "7", "8", "9", "a", "b", "c",
            "d", "e", "f", "A", "B", "C", "D", "E", "F"} |->
        CASE d = "0" -> 0 [] d = "1" -> 1 [] d = "2" -> 2 [] d = "3" -> 3
          [] d = "4" -> 4 [] d = "5" -> 5 [] d = "6" -> 6 [] d = "7" -> 7
          [] d = "8" -> 8 [] d = "9" -> 9 [] d \in {"a", "A"} -> 10
          [] d \in {"b", "B"} -> 11 [] d \in {"c", "C"} -> 12
          [] d \in {"d", "D"} -> 13 [] d \in {"e", "E"} -> 14
          [] d \in {"f", "F"} -> 15]

RECURSIVE HexOf(_)
HexOf(digits) ==
    IF digits = <<>> THEN 0
    ELSE 16 * HexOf(SubSeq(digits, 1, Len(digits) - 1))
            + HexValue[digits[Len(digits)]]

\* int(s, 16) of Python on the characters that are tried: an optional sign
\* and one or more hex digits give the number, in a sequence; anything else
\* raises ValueError, the empty sequence
int_base16(chars) ==
    LET signed == chars # <<>> /\ chars[1] \in {"-", "+"}
        digits == IF signed THEN Tail(chars) ELSE chars
    IN  IF digits # <<>>
           /\ \A i \in 1..Len(digits) : digits[i] \in DOMAIN HexValue
        THEN IF signed /\ chars[1] = "-"
             THEN <<0 - HexOf(digits)>> ELSE <<HexOf(digits)>>
        ELSE <<>>

\* str.lstrip("#"): without all the leading '#'
RECURSIVE lstrip(_)
lstrip(chars) ==
    IF chars # <<>> /\ chars[1] = "#" THEN lstrip(Tail(chars)) ELSE chars

Black == PyList(<<IntValue(0), IntValue(0), IntValue(0)>>)

\* helpers.py:29-44
hex_to_rgb_list(hex_string) ==
    IF hex_string.type = "NoneType" \/ hex_string.chars = <<>>
          \/ hex_string.chars[1] # "#"
    THEN Black
    ELSE LET hex_color == lstrip(hex_string.chars)
             pairs == [i \in 1..3 |->
                          int_base16(SubSeq(hex_color, 2 * i - 1, 2 * i))]
             doubled == [i \in 1..3 |->
                            int_base16(<<hex_color[i], hex_color[i]>>)]
         IN  IF Len(hex_color) = 6
             THEN IF \E i \in 1..3 : pairs[i] = <<>> THEN Black
                  ELSE PyList([i \in 1..3 |-> IntValue(pairs[i][1])])
             ELSE IF Len(hex_color) = 3
             THEN IF \E i \in 1..3 : doubled[i] = <<>> THEN Black
                  ELSE PyList([i \in 1..3 |-> IntValue(doubled[i][1])])
             ELSE Black

\* the digits of format(n, "x"), lowercase
HexDigits == <<"0", "1", "2", "3", "4", "5", "6", "7", "8", "9", "a", "b",
               "c", "d", "e", "f">>
RECURSIVE format_x(_)
format_x(n) ==
    IF n < 0 THEN <<"-">> \o format_x(0 - n)
    ELSE IF n < 16 THEN <<HexDigits[n + 1]>>
    ELSE format_x(n \div 16) \o <<HexDigits[(n % 16) + 1]>>

\* "{:x}": no padding
format_02x_unpadded(n) == format_x(n)

\* "{:02x}": padded with zeros to two characters, the sign included
format_02x(n) ==
    LET s == format_x(n)
    IN  IF Len(s) >= 2 THEN s
        ELSE <<"0">> \o s

\* helpers.py:53-55 without the lower limit
clamp_upper_only(x) == IF x < 255 THEN x ELSE 255

\* helpers.py:53-55: max(0, min(x, 255))
clamp(x) ==
    LET m == IF x < 255 THEN x ELSE 255
    IN  IF m > 0 THEN m ELSE 0

BlackHex == PyStr(<<"#", "0", "0", "0", "0", "0", "0">>)

\* helpers.py:46-59: a member that is a string makes min() raise TypeError,
\* which is caught
rgb_to_hex(rgb_tuple) ==
    IF rgb_tuple.type # "tuple" \/ Len(rgb_tuple.items) # 3 THEN BlackHex
    ELSE IF \E i \in 1..3 : rgb_tuple.items[i].type # "int" THEN BlackHex
    ELSE PyStr(<<"#">> \o format_02x(clamp(rgb_tuple.items[1].int))
                       \o format_02x(clamp(rgb_tuple.items[2].int))
                       \o format_02x(clamp(rgb_tuple.items[3].int)))

\* tuple(list)
tuple(value) == PyTuple(value.items)

\* an argument is drawn; nothing is called yet
HelperInit ==
    /\ \E value \in HexStrings \cup RgbArguments :
          helper_call = [NoHelperCall EXCEPT !.input = value]
    /\ config = Config(DefaultOptions("Default"))
    /\ hass = [state |-> "off", tv |-> FALSE, cover |-> FALSE]
    /\ media_data = MediaData
    /\ image_cache = <<>>
    /\ entry_data = [last_media_player_state |-> None,
                     off_state_delay_timer |-> <<>>]
    /\ display_update_lock = FALSE
    /\ waiters = <<>>
    /\ tasks = [s \in Slots |-> NoTask]
    /\ requests = 0
    /\ call = NoCall
    /\ rendered = {}
    /\ fallback_service = NoFallbackService
    /\ lyrics_provider = NoLyricsProvider
    /\ setup_entry = NoSetup

HelperUnchanged ==
    UNCHANGED <<hass, config, media_data, image_cache, entry_data,
                display_update_lock, waiters, tasks, requests, call, rendered,
                fallback_service, lyrics_provider, setup_entry>>

\* the value the next call of a chain is given: the drawn argument, or what
\* the previous call returned
Given ==
    IF helper_call.calls = <<>> THEN helper_call.input
    ELSE helper_call.calls[Len(helper_call.calls)].result

LastFunction ==
    IF helper_call.calls = <<>> THEN None
    ELSE helper_call.calls[Len(helper_call.calls)].function

Called(function, result) ==
    [helper_call EXCEPT
        !.calls = Append(@, [function |-> function, argument |-> Given,
                             result |-> result])]

\* hex_to_rgb_list(value) on a string or None
call_hex_to_rgb_list ==
    /\ helper_call.calls = <<>>
    /\ helper_call.input.type \in {"str", "NoneType"}
    /\ helper_call' = Called("hex_to_rgb_list", hex_to_rgb_list(Given))
    /\ HelperUnchanged

\* tuple(hex_to_rgb_list(value))
call_tuple ==
    /\ LastFunction = "hex_to_rgb_list"
    /\ helper_call' = Called("tuple", tuple(Given))
    /\ HelperUnchanged

\* rgb_to_hex(value), rgb_to_hex(hex_to_rgb_list(value)) and
\* rgb_to_hex(tuple(hex_to_rgb_list(value)))
call_rgb_to_hex ==
    /\ LastFunction \in {None, "hex_to_rgb_list", "tuple"}
    /\ helper_call' = Called("rgb_to_hex", rgb_to_hex(Given))
    /\ HelperUnchanged

HelperNext == call_hex_to_rgb_list \/ call_tuple \/ call_rgb_to_hex

HelperSpec == HelperInit /\ [][HelperNext]_vars

(***************************************************************************)
(* __init__.py: async_setup_entry on its own (SetupSpec).  The probe of    *)
(* the display and the state of the media player are what the setup meets. *)
(***************************************************************************)
\* what the Channel/GetIndex request of the probe can meet (pixoo.py:61-99)
ProbeOutcomes ==
    {"timeout", "connection error", "status 500", "error_code",
     "unexpected error", "SelectIndex"}

\* pixoo.py:61-99: the index in a sequence, or None (the empty sequence);
\* every exception of the request is caught inside and gives None
get_current_channel_index(probe) ==
    IF probe = "SelectIndex" THEN <<0>> ELSE <<>>

\* fallback_service.py:33-39: __init__ calls SpotifyService, a name that the
\* module imports only under TYPE_CHECKING (line 21) and that is therefore
\* not defined when the module runs
FallbackService_init == [raised |-> "NameError"]

\* __init__.py:401-468: the objects are constructed, the display is probed,
\* the entry data is stored, the listener is registered with the first
\* update, and the platforms are forwarded
SetupResult(st) ==
    LET constructed == FallbackService_init
        channel_index == get_current_channel_index(st.probe)
    IN  IF constructed.raised # None
        THEN [st EXCEPT !.pc = "done", !.raised = constructed.raised]
        ELSE [st EXCEPT
                 !.pc = "done",
                 !.channel_index = channel_index,
                 !.entry_data_stored = TRUE,
                 !.media_player_listener = TRUE,
                 !.initial_update = st.initial_state # None,
                 !.platforms_forwarded = TRUE,
                 !.returned = TRUE]

SetupInit ==
    /\ \E probe \in ProbeOutcomes, state \in PlayerStates \cup {None} :
          setup_entry = [NoSetup EXCEPT !.probe = probe,
                                        !.initial_state = state]
    /\ \E mode \in DISPLAY_MODE_OPTIONS :
          config = Config(DefaultOptions(mode))
    /\ hass = [state |-> "off", tv |-> FALSE, cover |-> FALSE]
    /\ media_data = MediaData
    /\ image_cache = <<>>
    /\ entry_data = [last_media_player_state |-> None,
                     off_state_delay_timer |-> <<>>]
    /\ display_update_lock = FALSE
    /\ waiters = <<>>
    /\ tasks = [s \in Slots |-> NoTask]
    /\ requests = 0
    /\ call = NoCall
    /\ rendered = {}
    /\ fallback_service = NoFallbackService
    /\ lyrics_provider = NoLyricsProvider
    /\ helper_call = NoHelperCall

async_setup_entry ==
    /\ setup_entry.pc = "idle"
    /\ setup_entry' = SetupResult(setup_entry)
    /\ UNCHANGED <<hass, config, media_data, image_cache, entry_data,
                   display_update_lock, waiters, tasks, requests, call,
                   rendered, fallback_service, lyrics_provider, helper_call>>

SetupNext == async_setup_entry

SetupSpec == SetupInit /\ [][SetupNext]_vars

(***************************************************************************)
(* Properties.                                                             *)
(***************************************************************************)
IsLight(c) == c.cmd \in {"ha_light", "wled"}
IsDisplay(c) == c.cmd \in {"display_gif", "send_text", "item_list"}
IsTick(c) == c.cmd = "calculate_position"
IsGetImage(c) == c.cmd = "get_image"
LightCmds(log) == SelectSeq(log, IsLight)
DisplayCmds(log) == SelectSeq(log, IsDisplay)
Issued(log, c) == \E i \in 1..Len(log) : log[i] = c
IssuedAfter(log, c, d) ==
    \E i, j \in 1..Len(log) : i < j /\ log[i] = c /\ log[j] = d

\* _async_execute_display_update is in progress in task t
InExecute(t) == t.kind # "none" /\ t.pc \notin {"ret", "fin"}
\* _async_execute_display_update has returned in task t
Returned(t) == t.pc = "ret"

\* the step in which the timer's callback runs
TimerFires ==
    /\ entry_data.off_state_delay_timer # <<>>
    /\ entry_data.off_state_delay_timer[1].state = "scheduled"
    /\ entry_data'.off_state_delay_timer # <<>>
    /\ entry_data'.off_state_delay_timer[1].state = "fired"

\* the step in which the handler of a state_changed event to state st takes
\* the lock and runs
Handles(st) ==
    /\ ~display_update_lock
    /\ waiters # <<>>
    /\ Head(waiters).kind = "event"
    /\ Head(waiters).old_state # None
    /\ Head(waiters).new_state = st
    /\ waiters' = Tail(waiters)

\* C1: at no time are two executions of _async_execute_display_update in
\* progress, whoever started them (event, forced update, fired timer)
C1_OneExecutionAtATime ==
    Cardinality({s \in Slots : InExecute(tasks[s])}) <= 1

\* C2: a timer scheduled by a handled pause never fires once a "playing"
\* event for the paused track has arrived: it is cancelled first
C2_TimerCancelledOnResume ==
    entry_data.off_state_delay_timer # <<>>
        => ~(/\ entry_data.off_state_delay_timer[1].state = "fired"
             /\ entry_data.off_state_delay_timer[1].resumed)

\* C3: when the timer fires with the player still paused and no event
\* waiting, the update it starts is a render of the inactive branch
C3_PausedTimerRendersInactive ==
    [][(TimerFires /\ hass.state = "paused" /\ waiters = <<>>)
          => \E s \in Slots \ {Holder} :
                /\ tasks[s].kind = "none"
                /\ tasks'[s].kind = "delayed"
                /\ tasks'[s].branch = "inactive"]_vars

\* C4: the handler of an off, idle, paused or standby event leaves no earlier
\* timer; for paused it starts no render and schedules the 5 s timer; for the
\* others it runs the off handling under the lock, as a render of the
\* inactive branch that ends with the lights off, with no timer pending
C4_OffLikeHandling ==
    [][/\ \A st \in OffLike :
             Handles(st) =>
                IF st = "paused"
                THEN /\ entry_data'.off_state_delay_timer = <<Timer(5)>>
                     /\ tasks' = tasks
                ELSE /\ entry_data'.off_state_delay_timer = <<>>
                     /\ tasks'[Holder].kind = "event"
                     /\ tasks'[Holder].branch = "inactive"
       /\ (tasks'[Holder].kind = "event"
           /\ tasks'[Holder].new_state \in OffLike)
             => /\ display_update_lock'
                /\ entry_data'.off_state_delay_timer = <<>>
                /\ tasks'[Holder].pc = "fin"
                      => LET l == LightCmds(tasks'[Holder].log)
                         IN  l # <<>> /\ l[Len(l)].arg = {"off"}]_vars

\* C5: when the handler of a "playing" event runs and the state handled
\* before it was off, idle, paused or standby, the image cache is empty as
\* the render of that event begins
C5_CacheEmptyWhenRenderingBegins ==
    [][(Handles("playing")
        /\ entry_data.last_media_player_state
               \in {"off", "idle", "paused", "standby"})
          => /\ image_cache' = <<>>
             /\ tasks'[Holder].kind = "event"
             /\ tasks'[Holder].new_state = "playing"]_vars

\* C5's case: the render of a "playing" event has begun right after the
\* handler dropped stale entries of the cache
C5_Witness ==
    /\ tasks[Holder].kind = "event"
    /\ tasks[Holder].new_state = "playing"
    /\ tasks[Holder].log # <<>>
    /\ tasks[Holder].log[1] = Cmd("clear_cache", {"stale"})
    /\ tasks[Holder].pc \in {"image", "resolve"}
    /\ image_cache = <<>>

\* C6: an update of the active branch for which get_image returned nothing
\* has written the black screen, and its last light command is a turn-off
C6_NullImageBlackAndLightsOff ==
    \A s \in Slots :
        (Returned(tasks[s]) /\ tasks[s].branch = "active"
         /\ tasks[s].b64 = "black")
          => LET l == LightCmds(tasks[s].log)
             IN  /\ Issued(tasks[s].log, Cmd("display_gif", {"black"}))
                 /\ l # <<>>
                 /\ l[Len(l)].arg = {"off"}

\* C7: an update whose source is an "already sent" sentinel has not called
\* get_image, has pushed no image, and has turned the lights off exactly when
\* the sentinel is the black screen's
C7_SentinelsSkipPipeline ==
    \A s \in Slots :
        (Returned(tasks[s]) /\ tasks[s].src \in SENTINELS)
          => LET l == LightCmds(tasks[s].log)
             IN  /\ tasks[s].key = <<>>
                 /\ tasks[s].b64 = None
                 /\ IF tasks[s].src = "fallback_black_screen_sent"
                    THEN l # <<>> /\ \A i \in 1..Len(l) : l[i].arg = {"off"}
                    ELSE \A i \in 1..Len(l) : l[i].arg # {"off"}

\* C8: an update of the inactive branch has sent nothing to the display when
\* full control is off, and the black screen followed by the item list of the
\* enabled clock and temperature items when it is on; either way its light
\* commands are the two turn-offs
C8_InactiveBranch ==
    \A s \in Slots :
        (Returned(tasks[s]) /\ tasks[s].branch = "inactive")
          => LET enabled ==
                     {i \in {"clock", "temperature"} :
                         \/ (i = "clock" /\ config.pixoo_show_clock)
                         \/ (i = "temperature"
                             /\ config.pixoo_temperature_enabled)}
             IN  /\ DisplayCmds(tasks[s].log) =
                        IF config.pixoo_full_control
                        THEN <<Cmd("display_gif", {"black"}),
                               Cmd("item_list", enabled)>>
                        ELSE <<>>
                 /\ LightCmds(tasks[s].log) =
                        <<Cmd("ha_light", {"off"}), Cmd("wled", {"off"})>>

\* C8's case: an update of the inactive branch under full control has sent
\* the black screen and the list of the clock and temperature items
C8_Witness ==
    \E s \in Slots :
        /\ Returned(tasks[s])
        /\ tasks[s].branch = "inactive"
        /\ config.pixoo_full_control
        /\ IssuedAfter(tasks[s].log, Cmd("display_gif", {"black"}),
                       Cmd("item_list", {"clock", "temperature"}))

\* C9: an update of the active branch that pushed the image of its source
\* and sent no clock or temperature item has sent the empty item list after
\* the image
C9_EmptyItemListClearsOverlay ==
    \A s \in Slots :
        (/\ Returned(tasks[s]) /\ tasks[s].branch = "active"
         /\ tasks[s].b64 = "image"
         /\ \A i \in 1..Len(tasks[s].log) :
               tasks[s].log[i].cmd = "item_list" => tasks[s].log[i].arg = {})
          => IssuedAfter(tasks[s].log, Cmd("display_gif", {tasks[s].b64}),
                         Cmd("item_list", {}))

\* C10: an update of the active branch made with lyrics enabled while the
\* player plays has called calculate_position once, as its last command,
\* with the position in milliseconds or 0
C10_LyricsTick ==
    \A s \in Slots :
        (/\ Returned(tasks[s]) /\ tasks[s].branch = "active"
         /\ config.pixoo_show_lyrics
         /\ media_data.is_playing /\ hass.state = "playing")
          => LET log == tasks[s].log
             IN  /\ Len(SelectSeq(log, IsTick)) = 1
                 /\ IsTick(log[Len(log)])
                 /\ log[Len(log)].arg \in {{"0"}, {"3000"}}

\* the scenario of C11 in task t: a "playing" event with a direct cover URL
\* and no special flags, for which the image pipeline returned the processed
\* image, and whose update has returned
CoverRendered(t) ==
    /\ t.kind = "event" /\ t.new_state = "playing" /\ Returned(t)
    /\ t.src = "cover" /\ t.b64 = "image"
    /\ config.display_mode_setting = "Default"
    /\ ~config.pixoo_show_lyrics /\ ~config.pixoo_show_clock
    /\ ~config.pixoo_temperature_enabled
    /\ ~config.pixoo_special_mode /\ ~config.pixoo_burned

Superseded(s) ==
    /\ tasks[s].kind = "delayed"
    /\ \/ entry_data.off_state_delay_timer = <<>>
       \/ entry_data.off_state_delay_timer[1].state # "fired"

\* C32: a fired off handling that a later handled event has superseded
\* writes nothing more to the display and sends nothing more to the lights
C32_SupersededCallbackIsSilent ==
    [][\A s \in Slots \ {Holder} :
          (Superseded(s) /\ tasks'[s].kind = "delayed")
             => /\ DisplayCmds(tasks'[s].log) = DisplayCmds(tasks[s].log)
                /\ LightCmds(tasks'[s].log) = LightCmds(tasks[s].log)]_vars

(***************************************************************************)
(* Properties of the mode resolution (ConfigSpec).                         *)
(***************************************************************************)
\* the resolved display flags and the AI model choice
DisplayFlags(c) ==
    [show_clock |-> c.pixoo_show_clock,
     show_temperature |-> c.pixoo_temperature_enabled,
     show_lyrics |-> c.pixoo_show_lyrics,
     show_itemlist_text |-> c.pixoo_show_text_enabled,
     text_background |-> c.pixoo_text_background_enabled,
     special_mode |-> c.pixoo_special_mode,
     spotify_slide |-> c.pixoo_spotify_slide,
     burned_caption |-> c.pixoo_burned,
     force_ai |-> c.force_ai,
     ai_fallback_model |-> c.ai_fallback_model,
     special_mode_spotify_slider |-> c.special_mode_spotify_slider]
\* the saved originals of the display flags
OriginalFlags(c) ==
    [show_clock |-> c.original.pixoo_show_clock,
     show_temperature |-> c.original.pixoo_temperature_enabled,
     show_lyrics |-> c.original.pixoo_show_lyrics,
     show_itemlist_text |-> c.original.pixoo_show_text_enabled,
     text_background |-> c.original.pixoo_text_background_enabled,
     special_mode |-> c.original.pixoo_special_mode,
     spotify_slide |-> c.original.pixoo_spotify_slide,
     burned_caption |-> c.original.pixoo_burned,
     force_ai |-> c.original.force_ai,
     ai_fallback_model |-> c.original.ai_fallback_model]
CropFlags(c) == <<c.pixoo_crop_borders_enabled, c.pixoo_crop_borders_extra>>
OriginalCropFlags(c) ==
    <<c.original.pixoo_crop_borders_enabled,
      c.original.pixoo_crop_borders_extra>>
\* the persisted options c was built from, with its current mode settings
OptionsOf(c) ==
    [f \in DOMAIN DefaultOptions("Default") |->
        IF f \in DOMAIN c.original THEN c.original[f] ELSE c[f]]
\* the names of the nine boolean flags
FlagNames ==
    {"show_clock", "show_temperature", "show_lyrics", "show_itemlist_text",
     "text_background", "special_mode", "spotify_slide", "burned_caption",
     "force_ai"}

\* C12: whatever modes were applied before, the flags a configuration holds
\* for its mode are those a configuration freshly built from the same
\* originals holds for that mode, and applying the mode once more changes
\* nothing
C12_ResolutionDeterministicIdempotent ==
    /\ DisplayFlags(config) = DisplayFlags(Config(OptionsOf(config)))
    /\ DisplayFlags(apply_display_mode_settings(
                        config, config.display_mode_setting))
           = DisplayFlags(config)

\* C12's case: a keyword mode is resolved on originals that differ from it,
\* after other settings were selected (the crop mode is not the startup one)
C12_Witness ==
    /\ config.display_mode_setting = "Clock | Temperature"
    /\ config.pixoo_show_clock /\ ~config.original.pixoo_show_clock
    /\ config.original.pixoo_show_lyrics /\ ~config.pixoo_show_lyrics
    /\ config.original.ai_fallback_model = "flux"
    /\ config.ai_fallback_model = "flux"

\* C13 as stated: after "Default" is resolved every flag, text_background
\* included, and the AI model equal their saved originals
C13_DefaultCopiesEveryFlag ==
    Lowered[config.display_mode_setting] = Chars("default")
        => \A f \in DOMAIN OriginalFlags(config) :
              DisplayFlags(config)[f] = OriginalFlags(config)[f]

\* C13: after "Default" is resolved every flag but text_background, and the
\* AI model, equal their saved originals; text_background is its original
\* where the original clock, temperature or item-list text is on, and false
\* where none is
C13_DefaultRestoresOriginals ==
    Lowered[config.display_mode_setting] = Chars("default")
        => LET o == OriginalFlags(config)
           IN  /\ \A f \in DOMAIN o \ {"text_background"} :
                     DisplayFlags(config)[f] = o[f]
               /\ config.pixoo_text_background_enabled =
                      (o.text_background
                       /\ (o.show_clock \/ o.show_temperature
                           \/ o.show_itemlist_text))

\* C13's case: "Default" is resolved on originals with lyrics and the text
\* background on and no item-list text
C13_Witness ==
    /\ config.display_mode_setting = "Default"
    /\ config.original.pixoo_show_lyrics /\ config.pixoo_show_lyrics
    /\ config.original.pixoo_text_background_enabled
    /\ ~config.pixoo_text_background_enabled

\* C14: after any resolution text_background is true only if show_clock,
\* show_temperature or show_itemlist_text is true
C14_TextBackgroundNeedsText ==
    config.pixoo_text_background_enabled
        => \/ config.pixoo_show_clock
           \/ config.pixoo_temperature_enabled
           \/ config.pixoo_show_text_enabled

\* C14's case: a mode that names the background but no item-list text is
\* resolved, and the background is off
C14_Witness ==
    /\ config.display_mode_setting = "Lyrics (Background)"
    /\ config.pixoo_show_lyrics
    /\ ~config.pixoo_text_background_enabled

\* C15: for a mode other than "Default", "Album Art Only" leaves every flag
\* false, "Lyrics Only" leaves only show_lyrics true, and for any other
\* string each flag is true exactly when its keyword occurs in the lowercased
\* string, text_background needing clock, temperature or text besides
C15_KeywordsDecideFlags ==
    LET mode == config.display_mode_setting
        f == DisplayFlags(config)
        has(kw) == KeywordIn(kw, mode)
    IN  ~LowerEq(mode, "default") =>
           IF LowerEq(mode, "album art only")
           THEN \A n \in FlagNames : ~f[n]
           ELSE IF LowerEq(mode, "lyrics only")
           THEN \A n \in FlagNames : f[n] = (n = "show_lyrics")
           ELSE /\ f.show_lyrics = has("lyrics")
                /\ f.show_clock = has("clock")
                /\ f.show_temperature = has("temperature")
                /\ f.show_itemlist_text = has("text")
                /\ f.special_mode = has("special mode")
                /\ f.spotify_slide = has("spotify slider")
                /\ f.force_ai = has("ai generation")
                /\ f.burned_caption = has("burned")
                /\ f.text_background =
                       (has("background")
                        /\ (has("clock") \/ has("temperature") \/ has("text")))

\* C15's case: a mode with keywords and an unknown word is resolved on
\* originals that differ from it
C15_Witness ==
    /\ config.display_mode_setting = "Clock | Polka"
    /\ config.pixoo_show_clock /\ ~config.original.pixoo_show_clock
    /\ config.original.pixoo_show_lyrics /\ ~config.pixoo_show_lyrics
    /\ config.original.pixoo_show_text_enabled
    /\ ~config.pixoo_show_text_enabled

\* C16: the crop flags are (false,false) for "No Crop", (true,false) for
\* "Crop", (true,true) for "Extra Crop" and the saved originals for "Default"
\* and any other string; selecting a crop mode changes no display flag and
\* selecting a display mode changes no crop flag
C16_CropResolution ==
    /\ [](CropFlags(config) =
             CASE config.crop_mode_setting = "No Crop" -> <<FALSE, FALSE>>
               [] config.crop_mode_setting = "Crop" -> <<TRUE, FALSE>>
               [] config.crop_mode_setting = "Extra Crop" -> <<TRUE, TRUE>>
               [] OTHER -> OriginalCropFlags(config))
    /\ [][/\ config'.crop_mode_setting # config.crop_mode_setting
               => DisplayFlags(config') = DisplayFlags(config)
          /\ config'.display_mode_setting # config.display_mode_setting
               => CropFlags(config') = CropFlags(config)]_vars

\* C16's case: "Crop" is resolved on originals that crop with the extra, under
\* a display mode other than the default
C16_Witness ==
    /\ config.crop_mode_setting = "Crop"
    /\ CropFlags(config) = <<TRUE, FALSE>>
    /\ OriginalCropFlags(config) = <<TRUE, TRUE>>
    /\ config.display_mode_setting = "Clock"
    /\ config.pixoo_show_clock

\* C30: after construction and after every selection of a mode, the AI
\* model, the clock alignment and the lyrics font are values of their option
\* lists
C30_EnumSettingsLegal ==
    /\ config.ai_fallback_model \in AI_FALLBACK_MODEL_OPTIONS
    /\ config.pixoo_clock_align \in CLOCK_ALIGN_OPTIONS
    /\ config.pixoo_lyrics_font.type = "int"
    /\ config.pixoo_lyrics_font.int \in LYRICS_FONT_OPTIONS

(***************************************************************************)
(* Properties of the image cache (CacheSpec).                              *)
(***************************************************************************)
\* the step in which get_image is called
CallBegins == call.pc # "fetch" /\ call' # call
\* the step in which a call that missed the cache ends
FetchEnds == call.pc = "fetch" /\ call'.pc = "done"
\* the key is a key of the dictionary
Present(cache, key) == \E i \in DOMAIN cache : cache[i].key = key

\* C17 as stated: a call for inputs that were rendered since the cache was
\* last cleared returns what that render returned and does not fetch
C17_RepeatHitsUntilClear ==
    [][\A r \in rendered :
          (CallBegins /\ call'.key = <<r.key>>)
            => /\ call'.pc = "done"
               /\ call'.result = r.value
               /\ ~call'.fetched
               /\ image_cache' = image_cache]_vars

\* C17, amended: a call for inputs that were rendered since the cache was
\* last cleared, and whose entry has not been evicted since, returns what
\* that render returned, does not fetch and leaves the cache as it is
C17_RepeatHitsWhileStored ==
    [][\A r \in rendered :
          (CallBegins /\ call'.key = <<r.key>> /\ Present(image_cache, r.key))
            => /\ call'.pc = "done"
               /\ call'.result = r.value
               /\ ~call'.fetched
               /\ image_cache' = image_cache]_vars

\* C17's case: a call has been answered from the cache with what an earlier
\* render of the same inputs returned, other inputs having been rendered
\* in between
C17_Witness ==
    /\ call.pc = "done" /\ ~call.fetched /\ call.result # <<>>
    /\ \E r \in rendered : <<r.key>> = call.key /\ r.value = call.result
    /\ Len(image_cache) = 2
    /\ <<image_cache[1].key>> = call.key

\* C18: an insertion of a new key into a cache at capacity removes one
\* entry, the first of the dictionary, which is the one inserted earliest,
\* and puts the new entry last; a hit leaves the dictionary, and so the
\* entry that is evicted next, as it is
C18_EvictsEarliestInserted ==
    [][/\ (/\ FetchEnds /\ call'.result # <<>>
           /\ Len(image_cache) >= config.pixoo_images_cache_size
           /\ ~Present(image_cache, call.key[1]))
            => image_cache' =
                   Append(Tail(image_cache),
                          [key |-> call.key[1], value |-> call'.result])
       /\ (CallBegins /\ call'.pc = "done" /\ call'.key # <<>>)
            => image_cache' = image_cache]_vars

\* C18's case: the cache of capacity 2 was full, and the insertion of a third
\* key has evicted its first entry and put the new one last
C18_Witness ==
    /\ config.pixoo_images_cache_size = 2
    /\ call.pc = "done" /\ call.fetched /\ call.result # <<>>
    /\ Len(image_cache) = 2
    /\ <<image_cache[2].key>> = call.key
    /\ Cardinality(rendered) = 3

\* C19: with a capacity of at least one, the cache never holds more entries
\* than its capacity, and no key twice
C19_SizeWithinCapacity ==
    config.pixoo_images_cache_size >= 1
      => /\ Len(image_cache) <= config.pixoo_images_cache_size
         /\ \A i, j \in DOMAIN image_cache :
               image_cache[i].key = image_cache[j].key => i = j

\* C19's case: more keys have been rendered than the cache can hold, and the
\* cache is full
C19_Witness ==
    /\ Len(image_cache) = config.pixoo_images_cache_size
    /\ Cardinality(rendered) > config.pixoo_images_cache_size

\* C20: a call whose fetch returned no bytes, or whose processing raised,
\* returns nothing and not an exception, and leaves the cache as it is
C20_FailedRenderNotCached ==
    [][(FetchEnds /\ (call'.image_data_bytes = <<>> \/ ~call'.ok))
         => /\ call'.result = <<>>
            /\ call'.pc # "raised"
            /\ image_cache' = image_cache]_vars

\* C20's case: a call for a key has failed while the cache held other
\* entries, and the key is not in the cache
C20_Witness ==
    /\ call.pc = "done" /\ call.fetched
    /\ call.image_data_bytes # <<>> /\ ~call.ok
    /\ call.result = <<>>
    /\ image_cache # <<>>
    /\ ~Present(image_cache, call.key[1])

(***************************************************************************)
(* Properties of the artwork resolution (FallbackSpec).                    *)
(***************************************************************************)
\* the credential or the configuration of a stage is present and the
\* snapshot is music-classified; for the two stored URLs, one is stored; for
\* the AI stage, there is a prompt
Eligible(stage, c, md, sp) ==
    CASE stage = 1 -> /\ md.current_mode = "Music"
                      /\ c.spotify_client_id # None
                      /\ c.spotify_client_secret # None
      [] stage = 2 -> md.current_mode = "Music" /\ c.discogs_api_token # None
      [] stage = 3 -> md.current_mode = "Music" /\ c.lastfm_api_key # None
      [] stage = 4 -> /\ md.current_mode = "Music"
                      /\ c.tidal_client_id # None
                      /\ c.tidal_client_secret # None
      [] stage = 5 -> md.current_mode = "Music" /\ c.musicbrainz_enabled
      [] stage = 6 -> md.current_mode = "Music" /\ sp.artist_image_url # None
      [] stage = 7 -> /\ md.current_mode = "Music"
                      /\ sp.first_album_image_url # None
      [] stage = 8 -> md.ai_prompt # None

\* a call of get_final_url with force_ai false has returned
Resolved == fallback_service.pc = "done" /\ ~config.force_ai

\* the chain of a returned call: the cover URL is returned and nothing is
\* asked, or the stages are asked in the order of STAGES, a stage being asked
\* exactly when it is eligible and no stage before it has yielded a URL, and
\* the URL returned is that of the stage asked last, if it yielded one
ChainInOrder ==
    Resolved =>
        LET f == fallback_service
            asked == f.asked
            md == f.media_data
        IN  IF md.cover_url # None
            THEN asked = <<>> /\ f.src = md.cover_url
            ELSE /\ \A i, j \in DOMAIN asked :
                       i < j => /\ asked[i].stage < asked[j].stage
                                /\ asked[i].url = None
                 /\ \A stage \in DOMAIN STAGES :
                       (\E i \in DOMAIN asked : asked[i].stage = stage)
                         <=> /\ Eligible(stage, config, md, f.spotify_service)
                             /\ \A i \in DOMAIN asked :
                                   asked[i].stage < stage
                                     => asked[i].url = None
                 /\ IF asked # <<>> /\ asked[Len(asked)].url # None
                    THEN f.src = asked[Len(asked)].url
                    ELSE f.src \in SENTINELS

\* there is no cover URL, no credential is configured and there is a prompt
NoCoverNoCredentials ==
    /\ fallback_service.media_data.cover_url = None
    /\ fallback_service.media_data.ai_prompt # None
    /\ config.spotify_client_id = None /\ config.spotify_client_secret = None
    /\ config.discogs_api_token = None /\ config.lastfm_api_key = None
    /\ config.tidal_client_id = None /\ config.tidal_client_secret = None

\* C21 as stated: the chain is in order and short-circuits, a provider is
\* asked only when it is eligible, and with no cover URL, no credentials and
\* a prompt the URL returned is the AI URL
C21_ChainAndAiWithoutCredentials ==
    /\ ChainInOrder
    /\ (Resolved /\ NoCoverNoCredentials)
          => fallback_service.src = "ai image"

\* C21, amended: the chain is in order and short-circuits, a provider is
\* asked only when it is eligible, and with no cover URL, no credentials, a
\* prompt, and the open metadata database (which needs no credential and is
\* enabled by default) disabled or yielding nothing, the URL returned is the
\* AI URL, the AI stage being the last one asked
C21_ChainAndAiWhenNothingYields ==
    /\ ChainInOrder
    /\ (/\ Resolved /\ NoCoverNoCredentials
        /\ \A i \in DOMAIN fallback_service.asked :
              fallback_service.asked[i].stage = 5
                => fallback_service.asked[i].url = None)
          => /\ fallback_service.src = "ai image"
             /\ fallback_service.asked[Len(fallback_service.asked)]
                   = [stage |-> 8, url |-> "ai image"]

\* C21's case: with no cover URL and no credentials the open metadata
\* database was asked and yielded nothing, the AI stage was asked, and its URL
\* has been returned
C21_Witness ==
    /\ Resolved /\ NoCoverNoCredentials
    /\ fallback_service.asked
          = <<[stage |-> 5, url |-> None], [stage |-> 8, url |-> "ai image"]>>
    /\ fallback_service.src = "ai image"

(***************************************************************************)
(* Properties of the lyrics provider (LyricsSpec).                         *)
(***************************************************************************)
\* the lines are in non-decreasing order of their times
NonDecreasing(lyrics_data) ==
    \A i, j \in 1..Len(lyrics_data) :
        i <= j => lyrics_data[i][1] <= lyrics_data[j][1]

\* the sync offset: the configured value, -1 standing for 0
Offset ==
    IF config.pixoo_lyrics_sync = -1 THEN 0 ELSE config.pixoo_lyrics_sync

\* the indexes (from 0) of the lines whose time plus the offset is at or
\* before the position
Due(lyrics_data, position) ==
    {i \in 0..(Len(lyrics_data) - 1) :
        lyrics_data[i + 1][1] + Offset <= position}

Largest(S) == CHOOSE m \in S : \A x \in S : x <= m

\* the last call was a tick that went on to select a line
Ticked ==
    /\ lyrics_provider.called = "calculate_position"
    /\ config.pixoo_show_lyrics
    /\ lyrics_provider.lyrics_data # <<>>

ExampleLyrics ==
    << <<0, <<"a">>>>, <<5000, <<"b">>>>, <<9000, <<"c">>>> >>

\* C22: on lyrics in non-decreasing order of their times, a tick selects the
\* last line whose time plus the sync offset (-1 standing for 0) is at or
\* before the position, and records its text as the displayed line; it
\* selects no line when there is none.  On [(0,a),(5000,b),(9000,c)] with
\* offset 0 the positions 4999, 5000, 8999 and 20000 select a, b, b and c
C22_TickSelectsLastDueLine ==
    (Ticked /\ NonDecreasing(lyrics_provider.lyrics_data)) =>
        LET lyrics_data == lyrics_provider.lyrics_data
            position == lyrics_provider.argument[1]
            due == Due(lyrics_data, position)
            idx == lyrics_provider.current_lyric_idx
        IN  /\ idx = IF due = {} THEN -1 ELSE Largest(due)
            /\ idx # -1 =>
                  lyrics_provider.last_lyrics_text = lyrics_data[idx + 1][2]
            /\ (lyrics_data = ExampleLyrics /\ Offset = 0) =>
                  /\ position = 4999 => idx = 0
                  /\ position = 5000 => idx = 1
                  /\ position = 8999 => idx = 1
                  /\ position = 20000 => idx = 2

\* C22's case: with the sync offset left at -1, a tick at 8999 on the lyrics
\* [(0,a),(5000,b),(9000,c)] has selected b, the second line
C22_Witness ==
    /\ Ticked
    /\ config.pixoo_lyrics_sync = -1
    /\ lyrics_provider.lyrics_data = ExampleLyrics
    /\ lyrics_provider.argument = <<8999>>
    /\ lyrics_provider.current_lyric_idx = 1
    /\ lyrics_provider.last_lyrics_text = <<"b">>

\* C23: a tick that selects a line other than the displayed one sends the
\* clear command followed by the line as one or two text commands, raises
\* nothing, and records the line as the displayed one
C23_NewLineClearedThenSent ==
    [][(/\ lyrics_provider'.called = "calculate_position"
        /\ config.pixoo_show_lyrics
        /\ lyrics_provider.lyrics_data # <<>>
        /\ lyrics_provider'.current_lyric_idx # -1
        /\ lyrics_provider.lyrics_data
              [lyrics_provider'.current_lyric_idx + 1][2]
                 # lyrics_provider.last_lyrics_text)
       => LET sent == lyrics_provider'.sent
          IN  /\ lyrics_provider'.raised = None
              /\ Len(sent) \in 2..3
              /\ sent[1] = ClearHttpText
              /\ \A k \in 2..Len(sent) :
                    sent[k].Command = "Draw/SendHttpText"
              /\ lyrics_provider'.last_lyrics_text
                    = lyrics_provider.lyrics_data
                         [lyrics_provider'.current_lyric_idx + 1][2]]_vars

\* the items of an answer that are not blank
Texts(items) == {i \in 1..Len(items) : items[i].lyrics # <<>>}

\* C25: after a fetch no clear task is pending, the list holds the lines of
\* the answer (none when the answer is missing, HTML, not JSON or not a list
\* of items), nothing was raised, and no line is recorded as displayed
C25_FetchReplacesLyricsState ==
    lyrics_provider.called = "get_lyrics" =>
        LET answer == lyrics_provider.argument[1]
        IN  /\ lyrics_provider.clear_lyric_task = <<>>
            /\ lyrics_provider.raised = None
            /\ Len(lyrics_provider.lyrics_data)
                  = IF answer.kind = "list"
                    THEN Cardinality(Texts(answer.items)) ELSE 0
            /\ lyrics_provider.last_lyrics_text = <<>>

\* C26: the stored lyrics are in non-decreasing order of their times
C26_StoredLyricsOrdered == NonDecreasing(lyrics_provider.lyrics_data)

(***************************************************************************)
(* Properties of the colour helpers (HelperSpec).                          *)
(***************************************************************************)
HexDigitChars ==
    {"0", "1", "2", "3", "4", "5", "6", "7", "8", "9", "a", "b", "c", "d",
     "e", "f", "A", "B", "C", "D", "E", "F"}

\* '#' followed by n hex digits
ValidHex(value, n) ==
    /\ value.type = "str"
    /\ Len(value.chars) = n + 1
    /\ value.chars[1] = "#"
    /\ \A i \in 2..(n + 1) : value.chars[i] \in HexDigitChars

\* the functions called so far, in order
Chain == [i \in 1..Len(helper_call.calls) |-> helper_call.calls[i].function]

\* h.lower()
Lowercased(value) ==
    PyStr([i \in 1..Len(value.chars) |-> LowerChar(value.chars[i])])

\* C27 as stated: for '#' followed by six hex digits,
\* rgb_to_hex(hex_to_rgb_list(h)) is h in lowercase
C27_RoundTripDirect ==
    (Chain = <<"hex_to_rgb_list", "rgb_to_hex">>
        /\ ValidHex(helper_call.input, 6))
    => helper_call.calls[2].result = Lowercased(helper_call.input)

\* C27: for '#' followed by six hex digits,
\* rgb_to_hex(tuple(hex_to_rgb_list(h))) is h in lowercase
C27_RoundTripThroughTuple ==
    (Chain = <<"hex_to_rgb_list", "tuple", "rgb_to_hex">>
        /\ ValidHex(helper_call.input, 6))
    => helper_call.calls[3].result = Lowercased(helper_call.input)

\* C27's case: "#Fa0aF0" has gone through hex_to_rgb_list, tuple and
\* rgb_to_hex and has come back as "#fa0af0"
C27_Witness ==
    /\ Chain = <<"hex_to_rgb_list", "tuple", "rgb_to_hex">>
    /\ helper_call.input = PyStr(<<"#", "F", "a", "0", "a", "F", "0">>)
    /\ helper_call.calls[1].result
          = PyList(<<IntValue(250), IntValue(10), IntValue(240)>>)
    /\ helper_call.calls[3].result
          = PyStr(<<"#", "f", "a", "0", "a", "f", "0">>)

\* the number two hex digits spell
Channel(hi, lo) == 16 * HexValue[hi] + HexValue[lo]

\* C28: hex_to_rgb_list returns the three channels of '#' and six hex digits,
\* the three doubled digits of '#' and three hex digits, and [0,0,0] for
\* every other argument; every channel it returns is in 0..255
C28_ChannelsOrBlack ==
    (helper_call.calls # <<>>
        /\ helper_call.calls[1].function = "hex_to_rgb_list")
    => LET h == helper_call.calls[1].argument
           r == helper_call.calls[1].result
       IN  /\ r.type = "list" /\ Len(r.items) = 3
           /\ \A i \in 1..3 :
                 r.items[i].type = "int" /\ r.items[i].int \in 0..255
           /\ ValidHex(h, 6) =>
                 \A i \in 1..3 :
                    r.items[i].int = Channel(h.chars[2 * i], h.chars[2 * i + 1])
           /\ ValidHex(h, 3) =>
                 \A i \in 1..3 :
                    r.items[i].int = Channel(h.chars[i + 1], h.chars[i + 1])
           /\ (~ValidHex(h, 6) /\ ~ValidHex(h, 3)) => r = Black

\* a tuple of three integers
IsRgb(value) ==
    /\ value.type = "tuple"
    /\ Len(value.items) = 3
    /\ \A i \in 1..3 : value.items[i].type = "int"

\* the last call was rgb_to_hex
RgbToHexCalled ==
    /\ helper_call.calls # <<>>
    /\ helper_call.calls[Len(helper_call.calls)].function = "rgb_to_hex"

\* C29: rgb_to_hex returns '#' and two lowercase hex digits for each channel
\* of a tuple of three integers, a channel below 0 counting as 0 and one
\* above 255 as 255; for every other argument it returns "#000000"
C29_ClampedLowercaseHexOrBlack ==
    RgbToHexCalled =>
        LET last == helper_call.calls[Len(helper_call.calls)]
            a == last.argument
            r == last.result
            limited(x) == IF x < 0 THEN 0 ELSE IF x > 255 THEN 255 ELSE x
        IN  /\ r.type = "str" /\ Len(r.chars) = 7 /\ r.chars[1] = "#"
            /\ IsRgb(a) =>
                  \A i \in 1..3 :
                     /\ r.chars[2 * i] \in HexDigitChars
                     /\ r.chars[2 * i + 1] \in HexDigitChars
                     /\ LowerChar(r.chars[2 * i]) = r.chars[2 * i]
                     /\ LowerChar(r.chars[2 * i + 1]) = r.chars[2 * i + 1]
                     /\ Channel(r.chars[2 * i], r.chars[2 * i + 1])
                           = limited(a.items[i].int)
            /\ ~IsRgb(a) => r = BlackHex

\* C29's case: rgb_to_hex((256, -1, 1000)) has returned "#ff00ff"
C29_Witness ==
    /\ RgbToHexCalled
    /\ Len(helper_call.calls) = 1
    /\ helper_call.input
          = PyTuple(<<IntValue(256), IntValue(-1), IntValue(1000)>>)
    /\ helper_call.calls[1].result
          = PyStr(<<"#", "f", "f", "0", "0", "f", "f">>)

(***************************************************************************)
(* Properties of the setup (SetupSpec).                                    *)
(***************************************************************************)
\* C31: when the probe of the display meets a timeout, a connection error or
\* a response other than 200, the setup ends by raising ConfigEntryNotReady,
\* with no listener registered, no entry data stored and no first update
C31_FailedProbeNotReady ==
    (setup_entry.pc = "done"
        /\ setup_entry.probe \in {"timeout", "connection error", "status 500"})
    => /\ setup_entry.raised = "ConfigEntryNotReady"
       /\ ~setup_entry.media_player_listener
       /\ ~setup_entry.entry_data_stored
       /\ ~setup_entry.initial_update
       /\ ~setup_entry.returned

ExpectedDelay(lyrics_data, idx) ==
    IF idx + 1 < Len(lyrics_data)
    THEN LET diff == lyrics_data[idx + 2][1] - lyrics_data[idx + 1][1]
         IN  IF diff < 15000 THEN diff ELSE 15000
    ELSE 10000

\* C34: a tick that displays a new line schedules the auto-clear after
\* min(time of the next line - time of this line, 15000 ms), after 10000 ms
\* for the last line, whatever the two times are (equal ones included)
C34_NewLineSchedulesClear ==
    [][(/\ lyrics_provider'.called = "calculate_position"
        /\ config.pixoo_show_lyrics
        /\ lyrics_provider.lyrics_data # <<>>
        /\ lyrics_provider'.current_lyric_idx # -1
        /\ lyrics_provider.lyrics_data
              [lyrics_provider'.current_lyric_idx + 1][2]
                 # lyrics_provider.last_lyrics_text)
       => /\ Len(lyrics_provider'.clear_lyric_task) = 1
          /\ lyrics_provider'.clear_lyric_task[1].delay_ms
                = ExpectedDelay(lyrics_provider.lyrics_data,
                                lyrics_provider'.current_lyric_idx)]_vars

\* C37: whenever a line is recorded as displayed an auto-clear is pending for
\* it, also after a tick that selects the line already displayed, so that
\* the line is cleared or replaced without a further tick
C37_DisplayedLineHasPendingClear ==
    lyrics_provider.last_lyrics_text # <<>> =>
        /\ Len(lyrics_provider.clear_lyric_task) = 1
        /\ lyrics_provider.clear_lyric_task[1].scheduled_for
              = lyrics_provider.last_lyrics_text

\* C35: at most one off-transition timer is pending: every handled event that
\* carries a new state cancels the timer scheduled before, so that a timer
\* pending after the handling is the one this handling has scheduled, for
\* "paused" and with its delay of 5 seconds
C35_HandlingCancelsEarlierTimer ==
    [][\A st \in PlayerStates :
          Handles(st) =>
              /\ Len(entry_data'.off_state_delay_timer) <= 1
              /\ TimerPending(entry_data') =>
                    /\ st = "paused"
                    /\ entry_data'.off_state_delay_timer = <<Timer(5)>>]_vars

\* a timer is pending while the task of an earlier timer, which has fired, is
\* still running: the later "paused" event has been handled
C35_Witness ==
    /\ TimerPending(entry_data)
    /\ waiters = <<>>
    /\ \E s \in Slots : tasks[s].kind = "delayed"

\* C36: the resolved feature flags and crop flags do not change, and the
\* image cache is not cleared by a selection, while an update holds
\* display_update_lock: a selection made during a render takes effect only
\* after the lock is released
C36_FlagsStableWhileLocked ==
    [][display_update_lock =>
          /\ DisplayFlags(config') = DisplayFlags(config)
          /\ CropFlags(config') = CropFlags(config)]_vars

\* the commands of __init__.py:253-301 for an update that has its image
Pushed(c) ==
    ItemsSeg(GifSeg([NewTask("event", "playing") EXCEPT !.b64 = "image"]),
             c).log

\* the image is followed by an item list with the item
ItemAfterImage(log, item) ==
    \E i, j \in 1..Len(log) :
        /\ i < j
        /\ log[i].cmd = "display_gif"
        /\ log[j].cmd = "item_list" /\ item \in log[j].arg

\* C38: under every selectable display mode whose name contains "Clock"
\* (or "Temperature"), an active update that pushes an image sends, after the
\* image, an item list with a clock (or temperature) item.  No image is
\* pushed under the burned caption, for which get_image raises
C38_ClockAndTemperatureModesSendItems ==
    LET mode == config.display_mode_setting
    IN  (mode \in DISPLAY_MODE_OPTIONS /\ ~config.pixoo_burned) =>
            /\ "clock" \in Found[mode]
                  => ItemAfterImage(Pushed(config), "clock")
            /\ "temperature" \in Found[mode]
                  => ItemAfterImage(Pushed(config), "temperature")

\* C39: the artist image and the first album image a resolution falls back on
\* (STAGES 6 and 7) are the ones stored by the Spotify search of that same
\* resolution, never the ones a search for an earlier track has stored
C39_StoredImagesOfThisSearch ==
    LET asked == fallback_service.asked
    IN  \A i \in 1..Len(asked) :
           (asked[i].stage \in {6, 7} /\ asked[i].url # None) =>
               /\ \E j \in 1..(i - 1) : asked[j].stage = 1
               /\ asked[i].url \in {"spotify artist image",
                                    "spotify album image"}

\* C40: with a capacity of the cache of 0 or less, a call whose fetch and
\* processing succeed returns the processed image and raises nothing
C40_NoCapacityStillReturnsImage ==
    [][(/\ config.pixoo_images_cache_size <= 0
        /\ call.pc = "fetch" /\ call'.pc # "fetch"
        /\ call'.image_data_bytes # <<>> /\ call'.ok)
       => /\ call'.pc = "done"
          /\ call'.result
                = process_image_data(call'.image_data_bytes[1], call.key[1],
                                     TRUE)]_vars

====
